---- MODULE Spec2Model ----
(***************************************************************************)
(* external-editor-revived: the codec between a Compose exchange and its   *)
(* RFC822-like temporary document (Compose::to_eml and                     *)
(* Compose::merge_from_eml), with the body chunker.                        *)
(*                                                                         *)
(* Text is modelled as a sequence of one-character strings.  A character   *)
(* outside ASCII is one element named by its code point ("U+20AC"); a byte *)
(* that is not valid UTF-8 is one element named by its value ("0x95").     *)
(* Option<T> is a sequence of length 0 (None) or 1 (Some(x)).              *)
(***************************************************************************)
EXTENDS Integers, Sequences, FiniteSets, TLC

None == <<>>
Some(x) == <<x>>
IsSome(o) == o # <<>>
Unwrap(o) == o[1]

----------------------------------------------------------------------------
(* str / String operations of the Rust standard library, as used by the    *)
(* source.                                                                 *)

UPPER ==
    <<"A","B","C","D","E","F","G","H","I","J","K","L","M","N","O","P","Q","R","S","T","U","V","W","X","Y","Z">>
LOWER ==
    <<"a","b","c","d","e","f","g","h","i","j","k","l","m","n","o","p","q","r","s","t","u","v","w","x","y","z">>
UpperSet == {UPPER[i] : i \in 1..26}
LowerMap == [c \in UpperSet |-> LOWER[CHOOSE i \in 1..26 : UPPER[i] = c]]

\* char::to_lowercase
LowerChar(c) == IF c \in UpperSet THEN LowerMap[c] ELSE c

\* str::to_lowercase
to_lowercase(s) == [i \in 1..Len(s) |-> LowerChar(s[i])]

\* char::is_whitespace, on the characters the model uses
IsWhitespace(c) == c \in {" ", "\t", "\n", "\r"}

RECURSIVE TrimStartIdx(_, _)
TrimStartIdx(s, i) ==
    IF i > Len(s) THEN i
    ELSE IF IsWhitespace(s[i]) THEN TrimStartIdx(s, i + 1) ELSE i

RECURSIVE TrimEndIdx(_, _)
TrimEndIdx(s, j) ==
    IF j < 1 THEN j
    ELSE IF IsWhitespace(s[j]) THEN TrimEndIdx(s, j - 1) ELSE j

\* str::trim
trim(s) ==
    LET a == TrimStartIdx(s, 1)
        b == TrimEndIdx(s, Len(s))
    IN  IF a > b THEN <<>> ELSE SubSeq(s, a, b)

\* str::trim_end
trim_end(s) == SubSeq(s, 1, TrimEndIdx(s, Len(s)))

\* str::starts_with / str::ends_with
starts_with(s, p) == Len(s) >= Len(p) /\ SubSeq(s, 1, Len(p)) = p
ends_with(s, p) == Len(s) >= Len(p) /\ SubSeq(s, Len(s) - Len(p) + 1, Len(s)) = p

\* the positions at or after i where pattern p occurs in s
Occurrences(s, p, i) ==
    {k \in i..(Len(s) - Len(p) + 1) : SubSeq(s, k, k + Len(p) - 1) = p}

\* the least element of a set of positions that is not empty
First(positions) == CHOOSE k \in positions : \A j \in positions : k <= j

\* str::find: the position of the first occurrence of pattern p in s at or
\* after i, 0 if none
FindIn(positions) == IF positions = {} THEN 0 ELSE First(positions)
FindStr(s, p, i) == FindIn(Occurrences(s, p, i))

\* str::contains
contains(s, p) == FindStr(s, p, 1) # 0

\* str::split_once: None, or Some(<<before, after>>) around the first p
split_once(s, p) ==
    LET i == FindStr(s, p, 1)
    IN  IF i = 0 THEN None
        ELSE Some(<<SubSeq(s, 1, i - 1), SubSeq(s, i + Len(p), Len(s))>>)

\* the elements of a set of positions, in increasing order
Sorted(positions) ==
    [k \in 1..Cardinality(positions) |->
        CHOOSE p \in positions : Cardinality({q \in positions : q < p}) = k - 1]

\* str::split on a one-character pattern: always at least one piece
SplitAt(s, at) ==
    [k \in 1..(Len(at) + 1) |->
        SubSeq(s, IF k = 1 THEN 1 ELSE at[k - 1] + 1,
                  IF k > Len(at) THEN Len(s) ELSE at[k] - 1)]
split(s, c) == SplitAt(s, Sorted(Occurrences(s, <<c>>, 1)))

\* concatenation of the texts ss[lo..hi]
RECURSIVE ConcatRange(_, _, _)
ConcatRange(ss, lo, hi) ==
    IF lo > hi THEN <<>>
    ELSE IF lo = hi THEN ss[lo]
    ELSE ConcatRange(ss, lo, (lo + hi) \div 2) \o ConcatRange(ss, (lo + hi) \div 2 + 1, hi)

\* concatenation of a sequence of texts
Concat(ss) == ConcatRange(ss, 1, Len(ss))

\* str::replace: every non-overlapping occurrence, left to right
RECURSIVE ReplaceFrom(_, _, _, _)
ReplaceFrom(s, from, to, i) ==
    IF i > Len(s) THEN <<>>
    ELSE IF i + Len(from) - 1 <= Len(s) /\ SubSeq(s, i, i + Len(from) - 1) = from
         THEN to \o ReplaceFrom(s, from, to, i + Len(from))
         ELSE <<s[i]>> \o ReplaceFrom(s, from, to, i + 1)

\* a pattern of one character is replaced character by character
replace(s, from, to) ==
    IF Len(from) = 1
    THEN Concat([i \in 1..Len(s) |-> IF s[i] = from[1] THEN to ELSE <<s[i]>>])
    ELSE ReplaceFrom(s, from, to, 1)

\* str::repeat of one space
Spaces(n) == [i \in 1..n |-> " "]

\* [String]::join
join(ss, sep) == Concat([i \in 1..Len(ss) |-> IF i = 1 THEN ss[i] ELSE sep \o ss[i]])

\* bytes of one character in UTF-8
Utf8Width(c) ==
    CASE c = "U+00E9" -> 2
      [] c \in {"U+20AC", "U+FFFD"} -> 3
      [] c = "U+1F600" -> 4
      [] OTHER -> 1

\* the bytes of s[lo..hi]
RECURSIVE Utf8LenRange(_, _, _)
Utf8LenRange(s, lo, hi) ==
    IF lo > hi THEN 0
    ELSE IF lo = hi THEN Utf8Width(s[lo])
    ELSE Utf8LenRange(s, lo, (lo + hi) \div 2) + Utf8LenRange(s, (lo + hi) \div 2 + 1, hi)

\* String::len: the length in bytes
len(s) == Utf8LenRange(s, 1, Len(s))

\* elements of a file that are bytes outside any valid UTF-8 sequence
InvalidBytes == {"0x95", "0xFF"}

\* String::from_utf8_lossy: each invalid byte becomes U+FFFD
from_utf8_lossy(buf) ==
    [i \in 1..Len(buf) |-> IF buf[i] \in InvalidBytes THEN "U+FFFD" ELSE buf[i]]

CRLF == <<"\r", "\n">>

\* writeln_crlf!: the formatted text followed by "\r\n"
writeln_crlf(text) == text \o CRLF

----------------------------------------------------------------------------
(* Header names *)

HEADER_META ==
    <<"X","-","E","x","t","E","d","i","t","o","r","R">>
HEADER_LOWER_META ==
    <<"x","-","e","x","t","e","d","i","t","o","r","r">>
HEADER_NORMALISED_META ==
    <<"X","-","E","x","t","e","d","i","t","o","r","r">>
HEADER_LOWER_ESCAPED_META ==
    <<"x","-","e","x","t","e","d","i","t","o","r","r","-","x","-","e","x","t","e","d","i","t","o","r","r">>
HEADER_PRIORITY ==
    <<"X","-","E","x","t","E","d","i","t","o","r","R","-","P","r","i","o","r","i","t","y">>
HEADER_LOWER_PRIORITY ==
    <<"x","-","e","x","t","e","d","i","t","o","r","r","-","p","r","i","o","r","i","t","y">>
HEADER_DELIVERY_FORMAT ==
    <<"X","-","E","x","t","E","d","i","t","o","r","R","-","D","e","l","i","v","e","r","y","-","F","o","r","m","a","t">>
HEADER_LOWER_DELIVERY_FORMAT ==
    <<"x","-","e","x","t","e","d","i","t","o","r","r","-","d","e","l","i","v","e","r","y","-","f","o","r","m","a","t">>
HEADER_ATTACH_VCARD ==
    <<"X","-","E","x","t","E","d","i","t","o","r","R","-","A","t","t","a","c","h","-","v","C","a","r","d">>
HEADER_LOWER_ATTACH_VCARD ==
    <<"x","-","e","x","t","e","d","i","t","o","r","r","-","a","t","t","a","c","h","-","v","c","a","r","d">>
HEADER_DELIVERY_STATUS_NOTIFICATION ==
    <<"X","-","E","x","t","E","d","i","t","o","r","R","-","D","e","l","i","v","e","r","y","-","S","t","a","t","u","s","-","N","o","t","i","f","i","c","a","t","i","o","n">>
HEADER_LOWER_DELIVERY_STATUS_NOTIFICATION ==
    <<"x","-","e","x","t","e","d","i","t","o","r","r","-","d","e","l","i","v","e","r","y","-","s","t","a","t","u","s","-","n","o","t","i","f","i","c","a","t","i","o","n">>
HEADER_DSN ==
    <<"X","-","E","x","t","E","d","i","t","o","r","R","-","D","S","N">>
HEADER_LOWER_DSN ==
    <<"x","-","e","x","t","e","d","i","t","o","r","r","-","d","s","n">>
HEADER_RETURN_RECEIPT ==
    <<"X","-","E","x","t","E","d","i","t","o","r","R","-","R","e","t","u","r","n","-","R","e","c","e","i","p","t">>
HEADER_LOWER_RETURN_RECEIPT ==
    <<"x","-","e","x","t","e","d","i","t","o","r","r","-","r","e","t","u","r","n","-","r","e","c","e","i","p","t">>
HEADER_SEND_ON_EXIT ==
    <<"X","-","E","x","t","E","d","i","t","o","r","R","-","S","e","n","d","-","O","n","-","E","x","i","t">>
HEADER_LOWER_SEND_ON_EXIT ==
    <<"x","-","e","x","t","e","d","i","t","o","r","r","-","s","e","n","d","-","o","n","-","e","x","i","t">>
HEADER_ALLOW_X_HEADERS ==
    <<"X","-","E","x","t","E","d","i","t","o","r","R","-","A","l","l","o","w","-","X","-","H","e","a","d","e","r","s">>
HEADER_LOWER_ALLOW_X_HEADERS ==
    <<"x","-","e","x","t","e","d","i","t","o","r","r","-","a","l","l","o","w","-","x","-","h","e","a","d","e","r","s">>
HEADER_LOWER_ALLOW_CUSTOM_HEADERS ==
    <<"x","-","e","x","t","e","d","i","t","o","r","r","-","a","l","l","o","w","-","c","u","s","t","o","m","-","h","e","a","d","e","r","s">>
HEADER_LOWER_CUSTOM_HEADER ==
    <<"x","-","e","x","t","e","d","i","t","o","r","r","-","c","u","s","t","o","m","-","h","e","a","d","e","r">>
HEADER_LOWER_X_HEADER ==
    <<"x","-","e","x","t","e","d","i","t","o","r","r","-","x","-","h","e","a","d","e","r">>
HEADER_HELP ==
    <<"X","-","E","x","t","E","d","i","t","o","r","R","-","H","e","l","p">>
HEADER_LOWER_HELP ==
    <<"x","-","e","x","t","e","d","i","t","o","r","r","-","h","e","l","p">>
HEADER_HELP_LINES == <<
    <<"U","s","e"," ","o","n","e"," ","a","d","d","r","e","s","s"," ","p","e","r"," ","U+0060","T","o","/","C","c","/","B","c","c","/","R","e","p","l","y","-","T","o","U+0060"," ","h","e","a","d","e","r">>,
    <<" "," "," "," ","(","e",".","g","."," ","t","w","o"," ","r","e","c","i","p","i","e","n","t","s"," ","r","e","q","u","i","r","e"," ","t","w","o"," ","U+0060","T","o",":","U+0060"," ","h","e","a","d","e","r","s",")",".">>,
    <<"R","e","m","o","v","e"," ","s","u","r","r","o","u","n","d","i","n","g"," ","b","r","a","c","k","e","t","s"," ","f","r","o","m"," ","h","e","a","d","e","r"," ","v","a","l","u","e","s">>,
    <<" "," "," "," ","t","o"," ","o","v","e","r","r","i","d","e"," ","d","e","f","a","u","l","t"," ","s","e","t","t","i","n","g","s",".">>,
    <<"P","r","i","o","r","i","t","y"," ","o","p","t","i","o","n","s",":"," ","l","o","w","e","s","t",","," ","l","o","w",","," ","n","o","r","m","a","l",","," ","h","i","g","h",","," ","h","i","g","h","e","s","t",".">>,
    <<"D","e","l","i","v","e","r","y"," ","f","o","r","m","a","t"," ","o","p","t","i","o","n","s",":"," ","a","u","t","o",","," ","p","l","a","i","n","t","e","x","t",","," ","h","t","m","l",","," ","b","o","t","h",".">>,
    <<"C","u","s","t","o","m"," ","h","e","a","d","e","r"," ","n","a","m","e","s"," ","m","u","s","t"," ","s","t","a","r","t"," ","w","i","t","h"," ","\"","X","-","\"",".">>,
    <<"K","E","E","P"," ","b","l","a","n","k"," ","l","i","n","e"," ","b","e","l","o","w"," ","t","o"," ","s","e","p","a","r","a","t","e"," ","h","e","a","d","e","r","s"," ","f","r","o","m"," ","b","o","d","y",".">> >>

----------------------------------------------------------------------------
(* model/thunderbird.rs: the data model *)

\* ComposeRecipient::Email / ComposeRecipient::Node
Email(s) == [kind |-> "Email", email |-> s, id |-> <<>>, node_type |-> "none"]
Node(id, t) == [kind |-> "Node", email |-> <<>>, id |-> id, node_type |-> t]

\* ComposeRecipientList::Single / ComposeRecipientList::Multiple
Single(r) == [kind |-> "Single", l |-> <<r>>]
Multiple(l) == [kind |-> "Multiple", l |-> l]

\* CustomHeader::new: the name trimmed and a leading "x-" rewritten to "X-",
\* the value trimmed
CustomHeader_new(name, value) ==
    LET n == trim(name)
    IN  [name  |-> IF starts_with(n, <<"x","-">>)
                   THEN <<"X","-">> \o SubSeq(n, 3, Len(n))
                   ELSE n,
         value |-> trim(value)]

\* TrackedOptionBool::new / ::set / ::is_unchanged
TrackedOptionBool_new(value) == [inner |-> Some(value), changed |-> FALSE]
\* a variant that marks only a value that differs
TrackedOptionBool_set_IfDiffers(t, value) ==
    [inner |-> Some(value), changed |-> t.changed \/ t.inner # Some(value)]
TrackedOptionBool_set(t, value) == [inner |-> Some(value), changed |-> TRUE]
is_unchanged(t) == ~t.changed

\* Display of Priority and DeliveryFormat (strum, serialize_all = "lowercase")
PriorityText ==
    [Lowest |-> <<"l","o","w","e","s","t">>, Low |-> <<"l","o","w">>, Normal |-> <<"n","o","r","m","a","l">>,
     High |-> <<"h","i","g","h">>, Highest |-> <<"h","i","g","h","e","s","t">>]
DeliveryFormatText ==
    [Auto |-> <<"a","u","t","o">>, PlainText |-> <<"p","l","a","i","n","t","e","x","t">>, Html |-> <<"h","t","m","l">>,
     Both |-> <<"b","o","t","h">>]

\* Priority::from_str / DeliveryFormat::from_str (ascii_case_insensitive):
\* None stands for Err
Priority_from_str(v) ==
    LET m == {p \in DOMAIN PriorityText : PriorityText[p] = to_lowercase(v)}
    IN  IF m = {} THEN None ELSE Some(CHOOSE p \in m : TRUE)
DeliveryFormat_from_str(v) ==
    LET m == {p \in DOMAIN DeliveryFormatText : DeliveryFormatText[p] = to_lowercase(v)}
    IN  IF m = {} THEN None ELSE Some(CHOOSE p \in m : TRUE)

\* a variant that reads every other text as false
bool_from_str_Lenient(v) == Some(v = <<"t","r","u","e">>)

\* bool::from_str: exactly "true" or "false"; None stands for Err
bool_from_str(v) ==
    IF v = <<"t","r","u","e">> THEN Some(TRUE)
    ELSE IF v = <<"f","a","l","s","e">> THEN Some(FALSE)
    ELSE None

\* Display of bool
BoolText(b) == IF b THEN <<"t","r","u","e">> ELSE <<"f","a","l","s","e">>

\* ComposeRecipientNodeType (serde, rename_all = "camelCase")
NodeTypeText == [contact |-> <<"c","o","n","t","a","c","t">>, mailingList |-> <<"m","a","i","l","i","n","g","L","i","s","t">>]

\* serde_json's escaping of a string's characters
RECURSIVE JsonEscape(_)
JsonEscape(s) ==
    IF s = <<>> THEN <<>>
    ELSE (CASE Head(s) = "\"" -> <<"\\", "\"">>
            [] Head(s) = "\\" -> <<"\\", "\\">>
            [] Head(s) = "\n" -> <<"\\", "n">>
            [] Head(s) = "\r" -> <<"\\", "r">>
            [] Head(s) = "\t" -> <<"\\", "t">>
            [] OTHER -> <<Head(s)>>) \o JsonEscape(Tail(s))

\* ComposeRecipientNode::to_header_value: serde_json::to_string_pretty with
\* every '\n' and '\r' removed
ComposeRecipientNode_to_header_value(node) ==
    LET pretty == <<"{","\n"," "," ","\"","i","d","\"",":"," ","\"">> \o JsonEscape(node.id) \o <<"\"",",","\n"," "," ","\"","t","y","p","e","\"",":"," ","\"">>
                  \o NodeTypeText[node.node_type] \o <<"\"","\n","}">>
    IN  replace(replace(pretty, <<"\n">>, <<>>), <<"\r">>, <<>>)

\* serde_json: a string literal starting at s[i] = '"'; the characters read so
\* far are acc.  [ok, val, next]
RECURSIVE JsonString(_, _, _)
JsonString(s, i, acc) ==
    IF i > Len(s) THEN [ok |-> FALSE, val |-> <<>>, next |-> i]
    ELSE IF s[i] = "\"" THEN [ok |-> TRUE, val |-> acc, next |-> i + 1]
    ELSE IF s[i] \in {"\n", "\r", "\t"} THEN [ok |-> FALSE, val |-> <<>>, next |-> i]
    ELSE IF s[i] = "\\"
         THEN IF i + 1 > Len(s) THEN [ok |-> FALSE, val |-> <<>>, next |-> i]
              ELSE IF s[i + 1] \in {"\"", "\\", "/"}
                   THEN JsonString(s, i + 2, Append(acc, s[i + 1]))
              ELSE IF s[i + 1] = "n" THEN JsonString(s, i + 2, Append(acc, "\n"))
              ELSE IF s[i + 1] = "r" THEN JsonString(s, i + 2, Append(acc, "\r"))
              ELSE IF s[i + 1] = "t" THEN JsonString(s, i + 2, Append(acc, "\t"))
              ELSE [ok |-> FALSE, val |-> <<>>, next |-> i]
    ELSE JsonString(s, i + 1, Append(acc, s[i]))

\* serde_json: the members of an object whose values are strings, from s[i]
\* on, up to and including the closing brace; got holds the fields read.
\* [ok, got, next]
JsonBad(got, i) == [ok |-> FALSE, got |-> got, next |-> i]

\* an unknown field is ignored
JsonPut(got, key, val) ==
    IF key \in {<<"i","d">>, <<"t","y","p","e">>}
    THEN [x \in DOMAIN got \cup {key} |-> IF x = key THEN val ELSE got[x]]
    ELSE got

RECURSIVE JsonMembers(_, _, _)
JsonEnd(s, e, got) ==
    IF e > Len(s) THEN JsonBad(got, e)
    ELSE IF s[e] = "}" THEN [ok |-> TRUE, got |-> got, next |-> e + 1]
    ELSE IF s[e] = "," THEN JsonMembers(s, e + 1, got)
    ELSE JsonBad(got, e)

\* a field given twice is an error
JsonValue(s, key, val, got) ==
    IF ~val.ok \/ key \in DOMAIN got THEN JsonBad(got, val.next)
    ELSE JsonEnd(s, TrimStartIdx(s, val.next), JsonPut(got, key, val.val))

JsonValueStart(s, key, v0, got) ==
    IF v0 > Len(s) \/ s[v0] # "\"" THEN JsonBad(got, v0)
    ELSE JsonValue(s, key, JsonString(s, v0 + 1, <<>>), got)

JsonColon(s, key, c, got) ==
    IF c > Len(s) \/ s[c] # ":" THEN JsonBad(got, c)
    ELSE JsonValueStart(s, key, TrimStartIdx(s, c + 1), got)

JsonKey(s, key, got) ==
    IF ~key.ok THEN JsonBad(got, key.next)
    ELSE JsonColon(s, key.val, TrimStartIdx(s, key.next), got)

JsonKeyStart(s, k0, got) ==
    IF k0 > Len(s) \/ s[k0] # "\"" THEN JsonBad(got, k0)
    ELSE JsonKey(s, JsonString(s, k0 + 1, <<>>), got)

JsonMembers(s, i, got) == JsonKeyStart(s, TrimStartIdx(s, i), got)

\* the node of a parsed object: both fields present, the type a known one,
\* nothing but whitespace after the closing brace
JsonNode(value, m, rest) ==
    IF m.ok /\ rest > Len(value) /\ <<"i","d">> \in DOMAIN m.got
       /\ <<"t","y","p","e">> \in DOMAIN m.got
       /\ \E t \in DOMAIN NodeTypeText : NodeTypeText[t] = m.got[<<"t","y","p","e">>]
    THEN Some(Node(m.got[<<"i","d">>],
                   CHOOSE t \in DOMAIN NodeTypeText : NodeTypeText[t] = m.got[<<"t","y","p","e">>]))
    ELSE None

JsonObject(value, m) == JsonNode(value, m, TrimStartIdx(value, m.next))

JsonStart(value, a) ==
    IF a > Len(value) \/ value[a] # "{" THEN None
    ELSE JsonObject(value, JsonMembers(value, a + 1, [x \in {} |-> <<>>]))

\* ComposeRecipientNode::from_header_value: serde_json::from_str; None stands
\* for Err
ComposeRecipientNode_from_header_value(value) ==
    JsonStart(value, TrimStartIdx(value, 1))

\* ComposeRecipient::to_header_value
ComposeRecipient_to_header_value(r) ==
    IF r.kind = "Email" THEN r.email ELSE ComposeRecipientNode_to_header_value(r)

\* ComposeRecipient::from_header_value: None stands for Err
ComposeRecipient_from_header_value(value) ==
    IF value = <<>> THEN None
    ELSE IF value[1] = "{" THEN ComposeRecipientNode_from_header_value(value)
    ELSE Some(Email(value))

\* ComposeDetails::get_body
get_body(cd) ==
    LET body == IF cd.is_plain_text THEN cd.plain_text_body ELSE cd.body
    IN  replace(replace(body, <<"\r">>, <<>>), <<"\n">>, CRLF)

\* ComposeDetails::set_body
set_body(cd, body) ==
    IF cd.is_plain_text THEN [cd EXCEPT !.plain_text_body = body]
    ELSE [cd EXCEPT !.body = body]

\* a variant that clears the subject with the recipients
clear_recipients_AndSubject(cd) ==
    [cd EXCEPT !.to = Multiple(<<>>), !.cc = Multiple(<<>>),
               !.bcc = Multiple(<<>>), !.reply_to = Multiple(<<>>), !.subject = <<>>]

\* a variant that forgets the Cc list
clear_recipients_NotCc(cd) ==
    [cd EXCEPT !.to = Multiple(<<>>), !.bcc = Multiple(<<>>), !.reply_to = Multiple(<<>>)]

\* ComposeDetails::clear_recipients
clear_recipients(cd) ==
    [cd EXCEPT !.to = Multiple(<<>>), !.cc = Multiple(<<>>),
               !.bcc = Multiple(<<>>), !.reply_to = Multiple(<<>>)]

\* a variant that forgets the recipients already there
add_recipient_Only(list, recipient) == Multiple(<<recipient>>)

\* ComposeDetails::add_to / add_cc / add_bcc / add_reply_to, on one list
add_recipient(list, recipient) ==
    IF list.kind = "Single" THEN Multiple(<<list.l[1], recipient>>)
    ELSE Multiple(Append(list.l, recipient))

----------------------------------------------------------------------------
(* model/messaging.rs: Compose::merge_from_eml *)

\* Compose::parse_optional_header::<T>: [ok, val]; a bracketed value is
\* Ok(None), any other value is parsed by from_str
parse_optional_header(parsed, header_value) ==
    IF starts_with(header_value, <<"[">>) /\ ends_with(header_value, <<"]">>)
    THEN [ok |-> TRUE, val |-> None]
    ELSE IF IsSome(parsed) THEN [ok |-> TRUE, val |-> Some(Unwrap(parsed))]
    ELSE [ok |-> FALSE, val |-> None]

\* Compose::parse_custom_header: None stands for Err
parse_custom_header(header_value) ==
    LET s == split_once(header_value, <<":">>)
    IN  IF IsSome(s) THEN Some(CustomHeader_new(Unwrap(s)[1], Unwrap(s)[2]))
        ELSE None

\* Compose::process_header.  st = [self, unknown_headers, err]: the Compose
\* being updated, the unknown header names so far, and Some(error) once a
\* conversion has failed (the ? operator returns it to the caller).
Fail(st, e) == [st EXCEPT !.err = Some(e)]

\* the arms "from", "to", "cc", "bcc" and "reply-to"
SetRecipient(st, header_name_lower, recipient) ==
    IF ~IsSome(recipient) THEN Fail(st, "recipient")
    ELSE CASE header_name_lower = <<"f","r","o","m">> ->
                [st EXCEPT !.self.compose_details.from = Unwrap(recipient)]
           [] header_name_lower = <<"t","o">> ->
                [st EXCEPT !.self.compose_details.to = add_recipient(@, Unwrap(recipient))]
           [] header_name_lower = <<"c","c">> ->
                [st EXCEPT !.self.compose_details.cc = add_recipient(@, Unwrap(recipient))]
           [] header_name_lower = <<"b","c","c">> ->
                [st EXCEPT !.self.compose_details.bcc = add_recipient(@, Unwrap(recipient))]
           [] header_name_lower = <<"r","e","p","l","y","-","t","o">> ->
                [st EXCEPT !.self.compose_details.reply_to = add_recipient(@, Unwrap(recipient))]

\* the arm HEADER_LOWER_PRIORITY
SetPriority(st, priority) ==
    IF IsSome(priority)
    THEN [st EXCEPT !.self.compose_details.priority = Some(Unwrap(priority))]
    ELSE Fail(st, "priority")

\* the arm HEADER_LOWER_DELIVERY_FORMAT
SetDeliveryFormat(st, delivery_format) ==
    IF ~delivery_format.ok THEN Fail(st, "delivery_format")
    ELSE IF IsSome(delivery_format.val)
    THEN [st EXCEPT !.self.compose_details.delivery_format =
                        Some(Some(Unwrap(delivery_format.val)))]
    ELSE st

\* the arm HEADER_LOWER_ATTACH_VCARD
SetAttachVcard(st, attach_vcard) ==
    IF ~attach_vcard.ok THEN Fail(st, "attach_vcard")
    ELSE IF IsSome(attach_vcard.val)
    THEN [st EXCEPT !.self.compose_details.attach_vcard =
                        TrackedOptionBool_set(@, Unwrap(attach_vcard.val))]
    ELSE st

\* the arms of the flags parsed by bool::from_str
SetFlag(st, header_name_lower, flag) ==
    IF ~IsSome(flag) THEN Fail(st, "bool")
    ELSE IF header_name_lower \in {HEADER_LOWER_DELIVERY_STATUS_NOTIFICATION, HEADER_LOWER_DSN}
    THEN [st EXCEPT !.self.compose_details.delivery_status_notification = Some(Unwrap(flag))]
    ELSE IF header_name_lower = HEADER_LOWER_RETURN_RECEIPT
    THEN [st EXCEPT !.self.compose_details.return_receipt = Some(Unwrap(flag))]
    ELSE [st EXCEPT !.self.configuration.allow_custom_headers = Unwrap(flag)]

\* the arm HEADER_LOWER_X_HEADER | HEADER_LOWER_CUSTOM_HEADER
PushParsedCustomHeader(st, custom_header) ==
    IF IsSome(custom_header)
    THEN [st EXCEPT !.self.compose_details.custom_headers = Append(@, Unwrap(custom_header))]
    ELSE Fail(st, "custom_header")

\* a variant that decides on a custom header when it is read
PushCustomHeader_IfAllowed(st, custom_header) ==
    IF st.self.configuration.allow_custom_headers
    THEN [st EXCEPT !.self.compose_details.custom_headers = Append(@, custom_header)]
    ELSE [st EXCEPT !.unknown_headers = Append(@, custom_header.name)]

\* the two guarded arms that push CustomHeader::new
PushCustomHeader(st, custom_header) ==
    [st EXCEPT !.self.compose_details.custom_headers = Append(@, custom_header)]

RECURSIVE ProcessCompactHeaders(_, _, _)

\* a variant that takes every name that starts with x-
IsCustomHeaderName_AnyX(header_name_lower) == starts_with(header_name_lower, <<"x","-">>)

\* the guard of the arm of process_header that takes a header as a custom
\* header under its own name
IsCustomHeaderName(header_name_lower) ==
    /\ starts_with(header_name_lower, <<"x","-">>)
    /\ ~starts_with(header_name_lower, HEADER_LOWER_META)

\* the match of process_header, for a value that is not empty
MatchHeader(st, header_name, header_name_lower, header_value) ==
    IF header_name_lower \in {<<"f","r","o","m">>, <<"t","o">>, <<"c","c">>, <<"b","c","c">>, <<"r","e","p","l","y","-","t","o">>}
    THEN SetRecipient(st, header_name_lower, ComposeRecipient_from_header_value(header_value))
    ELSE IF header_name_lower = <<"s","u","b","j","e","c","t">>
    THEN [st EXCEPT !.self.compose_details.subject = header_value]
    ELSE IF header_name_lower = HEADER_LOWER_PRIORITY
    THEN SetPriority(st, Priority_from_str(header_value))
    ELSE IF header_name_lower = HEADER_LOWER_DELIVERY_FORMAT
    THEN SetDeliveryFormat(st, parse_optional_header(DeliveryFormat_from_str(header_value),
                                                     header_value))
    ELSE IF header_name_lower = HEADER_LOWER_ATTACH_VCARD
    THEN SetAttachVcard(st, parse_optional_header(bool_from_str(header_value), header_value))
    ELSE IF header_name_lower \in
              {HEADER_LOWER_DELIVERY_STATUS_NOTIFICATION, HEADER_LOWER_DSN,
               HEADER_LOWER_RETURN_RECEIPT, HEADER_LOWER_ALLOW_X_HEADERS,
               HEADER_LOWER_ALLOW_CUSTOM_HEADERS}
    THEN SetFlag(st, header_name_lower, bool_from_str(header_value))
    ELSE IF header_name_lower \in {HEADER_LOWER_X_HEADER, HEADER_LOWER_CUSTOM_HEADER}
    THEN PushParsedCustomHeader(st, parse_custom_header(header_value))
    ELSE IF header_name_lower = HEADER_LOWER_SEND_ON_EXIT
    THEN [st EXCEPT !.self.configuration.send_on_exit = (header_value = <<"t","r","u","e">>)]
    ELSE IF header_name_lower = HEADER_LOWER_HELP THEN st
    ELSE IF header_name_lower = HEADER_LOWER_META
    THEN ProcessCompactHeaders(st, split(header_value, ","), 1)
    ELSE IF starts_with(header_name_lower, HEADER_LOWER_ESCAPED_META)
    THEN PushCustomHeader(st, CustomHeader_new(
                                  SubSeq(header_name, Len(HEADER_META) + 2, Len(header_name)),
                                  header_value))
    ELSE IF IsCustomHeaderName(header_name_lower)
    THEN PushCustomHeader(st, CustomHeader_new(header_name, header_value))
    ELSE [st EXCEPT !.unknown_headers = Append(@, header_name)]

\* a variant without the early return
SkipEmptyValue_Never(st, header_name, header_name_lower, header_value) ==
    MatchHeader(st, header_name, header_name_lower, header_value)

\* the early return of process_header on an empty value
SkipEmptyValue(st, header_name, header_name_lower, header_value) ==
    IF header_value = <<>> THEN st
    ELSE MatchHeader(st, header_name, header_name_lower, header_value)

process_header(st, header_name, header_value) ==
    SkipEmptyValue(st, header_name, to_lowercase(trim(header_name)), trim(header_value))

\* a variant that hands the sub-name on without the reserved prefix
ProcessCompactHeader_NoPrefix(st, s) ==
    IF IsSome(s) THEN process_header(st, Unwrap(s)[1], Unwrap(s)[2]) ELSE st

\* one piece of the value of an X-ExtEditorR header: a piece with no colon
\* is skipped
ProcessCompactHeader(st, s) ==
    IF IsSome(s)
    THEN process_header(st, HEADER_META \o <<"-">> \o Unwrap(s)[1], Unwrap(s)[2])
    ELSE st

\* the loop of the HEADER_LOWER_META arm over the pieces of the value
ProcessCompactHeaders(st, compact_headers, i) ==
    IF i > Len(compact_headers) \/ IsSome(st.err) THEN st
    ELSE ProcessCompactHeaders(
             ProcessCompactHeader(st, split_once(trim(compact_headers[i]), <<":">>)),
             compact_headers, i + 1)

\* the header loop of merge_from_eml: read_until(b'\n') from position pos of
\* the file until a line that is empty once trimmed, or the end of the file.
\* [st, pos]: the state reached and the position where the body starts.
RECURSIVE ReadHeaders(_, _, _)

\* after the line ending at position last has been processed into st
NextHeader(st, file, last) ==
    IF IsSome(st.err) THEN [st |-> st, pos |-> last + 1]
    ELSE ReadHeaders(st, file, last + 1)

\* a line that is not empty: a line with no colon is skipped
ReadHeader(st, s) ==
    IF IsSome(s) THEN process_header(st, Unwrap(s)[1], Unwrap(s)[2]) ELSE st

\* a variant that reads on after a line that is empty once trimmed
ReadLine_PastBlank(st, file, last, line) ==
    IF line = <<>> THEN ReadHeaders(st, file, last + 1)
    ELSE NextHeader(ReadHeader(st, split_once(line, <<":">>)), file, last)

ReadLine(st, file, last, line) ==
    IF line = <<>> THEN [st |-> st, pos |-> last + 1]
    ELSE NextHeader(ReadHeader(st, split_once(line, <<":">>)), file, last)

\* the position of the last byte read_until(b'\n') reads from pos
LineEnd(file, nl) == IF nl = 0 THEN Len(file) ELSE nl

ReadUntil(st, file, pos, last) ==
    ReadLine(st, file, last, trim(from_utf8_lossy(SubSeq(file, pos, last))))

ReadHeaders(st, file, pos) ==
    IF pos > Len(file) THEN [st |-> st, pos |-> pos]
    ELSE ReadUntil(st, file, pos, LineEnd(file, FindStr(file, <<"\n">>, pos)))

\* the message of the warning about unknown headers
UnknownHeadersMessage(unknown_headers) ==
    <<"E","x","t","E","d","i","t","o","r","R"," ","d","i","d"," ","n","o","t"," ","r","e","c","o","g","n","i","s","e"," ","t","h","e"," ","f","o","l","l","o","w","i","n","g"," ","h","e","a","d","e","r","s",":","\n">>
    \o join([i \in 1..Len(unknown_headers) |-> <<"-"," ">> \o unknown_headers[i]], <<"\n">>)

\* a variant that removes the custom headers without naming them
DrainCustomHeaders_Unnamed(st) ==
    IF ~st.self.configuration.allow_custom_headers
    THEN [st EXCEPT !.self.compose_details.custom_headers = <<>>]
    ELSE st

\* custom headers that are not allowed are drained into the unknown headers
DrainCustomHeaders(st) ==
    IF ~st.self.configuration.allow_custom_headers
    THEN [st EXCEPT !.unknown_headers =
                        @ \o [i \in 1..Len(st.self.compose_details.custom_headers) |->
                                 st.self.compose_details.custom_headers[i].name],
                    !.self.compose_details.custom_headers = <<>>]
    ELSE st

\* one warning names the unknown headers
WarnUnknownHeaders(st) ==
    IF st.unknown_headers # <<>>
    THEN [st.self EXCEPT !.warnings =
             Append(@, [title |-> "Unknown header(s) found",
                        message |-> UnknownHeadersMessage(st.unknown_headers)])]
    ELSE st.self

\* a variant that leaves send-on-exit as the headers set it
DisableSendOnExit_Never(self) == self

\* any warning disables send-on-exit
DisableSendOnExit(self) ==
    IF self.warnings # <<>>
    THEN [self EXCEPT !.configuration.send_on_exit = FALSE]
    ELSE self

\* the end of the header block
FinishHeaders(st) == DisableSendOnExit(WarnUnknownHeaders(DrainCustomHeaders(st)))

\* the chunk loop of merge_from_eml over body[i..]: chunk is the text
\* accumulated since the last flush, cd the compose details (whose body each
\* flush sets), list the compose details pushed so far
\* a variant that flushes as soon as the bound is reached
ChunkIsFull_AtBound(chunk, max_body_length) == len(chunk) >= max_body_length

ChunkIsFull(chunk, max_body_length) == len(chunk) > max_body_length

RECURSIVE ChunkLoop(_, _, _, _, _, _)
Flush(body, i, cd, list, max_body_length) ==
    ChunkLoop(body, i + 1, <<>>, cd, Append(list, cd), max_body_length)

PushChar(body, i, chunk, cd, list, max_body_length) ==
    IF ChunkIsFull(chunk, max_body_length)
    THEN Flush(body, i, set_body(cd, chunk), list, max_body_length)
    ELSE ChunkLoop(body, i + 1, chunk, cd, list, max_body_length)

ChunkLoop(body, i, chunk, cd, list, max_body_length) ==
    IF i > Len(body) THEN [chunk |-> chunk, cd |-> cd, list |-> list]
    ELSE PushChar(body, i, Append(chunk, body[i]), cd, list, max_body_length)

\* a variant that drops the chunk left after a flush
PushesLastChunk_OnlyUnflushed(chunk, list) == list = <<>>

\* a variant that pushes the chunk left after the loop even when it is empty
PushesLastChunk_Always(chunk, list) == TRUE

\* whether the chunk left after the loop is pushed
PushesLastChunk(chunk, list) == chunk # <<>> \/ list = <<>>

PushLastChunk(loop, cd) ==
    IF PushesLastChunk(loop.chunk, loop.list) THEN Append(loop.list, cd)
    ELSE loop.list

SetLastChunk(loop) == PushLastChunk(loop, set_body(loop.cd, loop.chunk))

\* the compose details of the responses, for the decoded body
ChunkBody(cd0, body, max_body_length) ==
    SetLastChunk(ChunkLoop(body, 1, <<>>,
                           [cd0 EXCEPT !.body = <<>>, !.plain_text_body = <<>>],
                           <<>>, max_body_length))

\* a variant that numbers the responses from one
StampResponses_FromOne(self, compose_details_list) ==
    [i \in 1..Len(compose_details_list) |->
        [self EXCEPT !.compose_details = compose_details_list[i],
                     !.configuration.sequence = i,
                     !.configuration.total = Len(compose_details_list)]]

\* the responses: one clone of self per compose details, stamped with its
\* sequence and the total
StampResponses(self, compose_details_list) ==
    [i \in 1..Len(compose_details_list) |->
        [self EXCEPT !.compose_details = compose_details_list[i],
                     !.configuration.sequence = i - 1,
                     !.configuration.total = Len(compose_details_list)]]

\* the body of merge_from_eml after the header loop
ReadBody(self, body, max_body_length) ==
    [ok |-> TRUE,
     responses |-> StampResponses(self, ChunkBody(self.compose_details, body, max_body_length)),
     err |-> None]

MergeAfterHeaders(read, file, max_body_length) ==
    IF IsSome(read.st.err)
    THEN [ok |-> FALSE, responses |-> <<>>, err |-> read.st.err]
    ELSE ReadBody(FinishHeaders(read.st),
                  from_utf8_lossy(SubSeq(file, read.pos, Len(file))), max_body_length)

\* Compose::merge_from_eml: [ok, responses, err]
merge_from_eml(self0, file, max_body_length) ==
    MergeAfterHeaders(
        ReadHeaders([self |-> [self0 EXCEPT !.compose_details = clear_recipients(@),
                                            !.configuration.send_on_exit = FALSE,
                                            !.compose_details.custom_headers = <<>>],
                     unknown_headers |-> <<>>, err |-> None],
                    file, 1),
        file, max_body_length)

----------------------------------------------------------------------------
(* util/meta_header.rs *)

NUM_COLUMNS == 4
NAME_VALUE_DELIMITER == <<":", " ">>
HEADER_DELIMITER == <<",", " ">>

\* header.split_once(NAME_VALUE_DELIMITER) of header i
SplitHeader(headers, i) == split_once(headers[i], NAME_VALUE_DELIMITER)

\* the headers that both loops of align_headers take: those with a delimiter
Delimited(headers) == {i \in 1..Len(headers) : IsSome(SplitHeader(headers, i))}

\* `column` when a loop reaches header i: every header with a delimiter
\* before it has advanced it twice, once for its name and once for its value
\* (columns are numbered from 0)
ColumnAt(headers, i) ==
    (2 * Cardinality({j \in Delimited(headers) : j < i})) % NUM_COLUMNS

\* the widths header i offers to column c: that of its trimmed name at its
\* column, that of its trimmed value at the next one
WidthsAt(headers, i, c) ==
    (IF ColumnAt(headers, i) = c
     THEN {len(trim(Unwrap(SplitHeader(headers, i))[1]))} ELSE {})
    \cup (IF (ColumnAt(headers, i) + 1) % NUM_COLUMNS = c
          THEN {len(trim(Unwrap(SplitHeader(headers, i))[2]))} ELSE {})

Greatest(widths) == CHOOSE w \in widths : \A v \in widths : v <= w

\* the first loop of align_headers: column_widths, that start at 0 and are
\* raised to every greater width offered (widths[c + 1] is column c)
ColumnWidths(headers) ==
    [c \in 1..NUM_COLUMNS |->
        Greatest({0} \cup UNION {WidthsAt(headers, i, c - 1) : i \in Delimited(headers)})]

\* what the second loop adds to the last line for a header with a delimiter
AlignedHeader(name_trimmed, value_trimmed, column, column_widths, last) ==
    name_trimmed \o NAME_VALUE_DELIMITER
    \o Spaces(column_widths[column + 1] - len(name_trimmed))
    \o value_trimmed
    \o (IF (column + 1) % NUM_COLUMNS < NUM_COLUMNS - 1 /\ ~last
        THEN Spaces(column_widths[((column + 1) % NUM_COLUMNS) + 1] - len(value_trimmed))
             \o HEADER_DELIMITER
        ELSE <<>>)

\* the headers at which the second loop pushes a new line: column is 0
LineStarts(headers) == {i \in 1..Len(headers) : ColumnAt(headers, i) = 0}

\* the headers added to the line pushed at header i: those with a delimiter
\* from i on, before the next line is pushed
OnLine(headers, i) ==
    {j \in Delimited(headers) :
        j >= i /\ \A k \in LineStarts(headers) : k > i => j < k}

AlignHeader(headers, j, column_widths) ==
    AlignedHeader(trim(Unwrap(SplitHeader(headers, j))[1]),
                  trim(Unwrap(SplitHeader(headers, j))[2]),
                  ColumnAt(headers, j), column_widths, j = Len(headers))

AlignedLine(headers, on_line, column_widths) ==
    Concat([k \in 1..Len(on_line) |-> AlignHeader(headers, on_line[k], column_widths)])

\* the second loop of align_headers: the lines, in the order they are pushed
AlignedLines(headers, starts, column_widths) ==
    [k \in 1..Len(starts) |->
        AlignedLine(headers, Sorted(OnLine(headers, starts[k])), column_widths)]

\* a variant that joins all the headers on one line
align_headers_OneLine(headers) == <<join(headers, HEADER_DELIMITER)>>

\* align_headers
align_headers(headers) ==
    AlignedLines(headers, Sorted(LineStarts(headers)), ColumnWidths(headers))

----------------------------------------------------------------------------
(* model/messaging.rs: Compose::to_eml *)

\* Compose::compose_recipient_list_to_eml
compose_recipient_list_to_eml(name, list) ==
    IF list.kind = "Single"
    THEN writeln_crlf(name \o <<":"," ">> \o ComposeRecipient_to_header_value(list.l[1]))
    ELSE IF list.l = <<>> THEN writeln_crlf(name \o <<":"," ">>)
    ELSE Concat([i \in 1..Len(list.l) |->
                    writeln_crlf(name \o <<":"," ">> \o ComposeRecipient_to_header_value(list.l[i]))])

\* Compose::write_help_headers
write_help_headers ==
    Concat([i \in 1..Len(HEADER_HELP_LINES) |->
               writeln_crlf(HEADER_HELP \o <<":"," ">> \o HEADER_HELP_LINES[i])])

\* a variant that looks at the name alone
IsMetaCustomHeader_AnyValue(custom_header) ==
    starts_with(to_lowercase(custom_header.name), HEADER_LOWER_META)

\* the closure of the partition in to_eml: a custom header that goes with the
\* X-ExtEditorR headers
IsMetaCustomHeader(custom_header) ==
    /\ starts_with(to_lowercase(custom_header.name), HEADER_LOWER_META)
    /\ ~contains(custom_header.value, <<",">>)
    /\ ~contains(custom_header.value, <<":">>)

\* Iterator::filter, keeping the order
RECURSIVE SelectHeaders(_, _)
SelectHeaders(hs, meta) ==
    IF hs = <<>> THEN <<>>
    ELSE IF IsMetaCustomHeader(Head(hs)) = meta
         THEN <<Head(hs)>> \o SelectHeaders(Tail(hs), meta)
         ELSE SelectHeaders(Tail(hs), meta)

\* a variant that writes the name as it is
EscapedCustomHeader_AsIs(custom_header) ==
    custom_header.name \o <<":"," ">> \o custom_header.value

\* the line of a custom header whose name starts with X-ExtEditorR: the
\* prefix is written once more before the name
EscapedCustomHeader(custom_header) ==
    HEADER_META \o <<"-">>
    \o replace(custom_header.name, HEADER_NORMALISED_META, HEADER_META)
    \o <<":"," ">> \o custom_header.value

\* the custom headers written with the X-ExtEditorR headers
MetaCustomHeaders(meta_custom_headers) ==
    [i \in 1..Len(meta_custom_headers) |-> EscapedCustomHeader(meta_custom_headers[i])]

\* a variant that writes the value alone
Bracketed_Bare(text) == text

\* format!("[{}]"): the value of a header that is there to be overridden
Bracketed(text) == <<"[">> \o text \o <<"]">>

\* the X-ExtEditorR headers of to_eml, before they are written
MetaHeaders(self) ==
    (IF IsSome(self.compose_details.priority)
     THEN <<HEADER_PRIORITY \o <<":"," ">> \o PriorityText[Unwrap(self.compose_details.priority)]>>
     ELSE <<>>)
    \o (IF IsSome(self.compose_details.delivery_format)
        THEN IF IsSome(Unwrap(self.compose_details.delivery_format))
             THEN <<HEADER_DELIVERY_FORMAT \o <<":"," ">>
                    \o Bracketed(DeliveryFormatText[
                           Unwrap(Unwrap(self.compose_details.delivery_format))])>>
             ELSE <<HEADER_DELIVERY_FORMAT \o <<":"," ">>
                    \o Bracketed(DeliveryFormatText["Auto"])>>
        ELSE <<>>)
    \o (IF IsSome(self.compose_details.attach_vcard.inner)
        THEN <<HEADER_ATTACH_VCARD \o <<":"," ">>
               \o Bracketed(BoolText(Unwrap(self.compose_details.attach_vcard.inner)))>>
        ELSE <<>>)
    \o (IF IsSome(self.compose_details.delivery_status_notification)
        THEN <<(IF self.configuration.meta_headers
                THEN HEADER_DSN ELSE HEADER_DELIVERY_STATUS_NOTIFICATION)
               \o <<":"," ">>
               \o BoolText(Unwrap(self.compose_details.delivery_status_notification))>>
        ELSE <<>>)
    \o (IF IsSome(self.compose_details.return_receipt)
        THEN <<HEADER_RETURN_RECEIPT \o <<":"," ">>
               \o BoolText(Unwrap(self.compose_details.return_receipt))>>
        ELSE <<>>)
    \o <<HEADER_ALLOW_X_HEADERS \o <<":"," ">>
         \o BoolText(self.configuration.allow_custom_headers
                     \/ self.compose_details.custom_headers # <<>>)>>
    \o <<HEADER_SEND_ON_EXIT \o <<":"," ">> \o BoolText(self.configuration.send_on_exit)>>
    \o MetaCustomHeaders(SelectHeaders(self.compose_details.custom_headers, TRUE))

\* String::split_at(HEADER_META.len() + 1).1 on every header
StripMeta(headers) ==
    [i \in 1..Len(headers) |-> SubSeq(headers[i], Len(HEADER_META) + 2, Len(headers[i]))]

\* the aligned lines, each written after "X-ExtEditorR: "
WriteAligned(aligned) ==
    Concat([i \in 1..Len(aligned) |-> writeln_crlf(HEADER_META \o <<":"," ">> \o aligned[i])])

\* the lines to_eml writes for the X-ExtEditorR headers
WriteHeaders(meta_headers, headers) ==
    IF meta_headers THEN WriteAligned(align_headers(StripMeta(headers)))
    ELSE Concat([i \in 1..Len(headers) |-> writeln_crlf(headers[i])])

WriteMetaHeaders(self) == WriteHeaders(self.configuration.meta_headers, MetaHeaders(self))

\* the line to_eml writes for one of the other custom headers
WriteCustomHeader(custom_header) ==
    IF starts_with(to_lowercase(custom_header.name), HEADER_LOWER_META)
    THEN writeln_crlf(EscapedCustomHeader(custom_header))
    ELSE writeln_crlf(custom_header.name \o <<":"," ">> \o custom_header.value)

WriteCustomHeaders(other_custom_headers) ==
    Concat([i \in 1..Len(other_custom_headers) |-> WriteCustomHeader(other_custom_headers[i])])

WriteOtherCustomHeaders(self) ==
    WriteCustomHeaders(SelectHeaders(self.compose_details.custom_headers, FALSE))

\* Compose::to_eml: the text written
to_eml(self) ==
    writeln_crlf(<<"F","r","o","m",":"," ">> \o ComposeRecipient_to_header_value(self.compose_details.from))
    \o compose_recipient_list_to_eml(<<"T","o">>, self.compose_details.to)
    \o compose_recipient_list_to_eml(<<"C","c">>, self.compose_details.cc)
    \o compose_recipient_list_to_eml(<<"B","c","c">>, self.compose_details.bcc)
    \o compose_recipient_list_to_eml(<<"R","e","p","l","y","-","T","o">>, self.compose_details.reply_to)
    \o writeln_crlf(<<"S","u","b","j","e","c","t",":"," ">> \o self.compose_details.subject)
    \o WriteMetaHeaders(self)
    \o WriteOtherCustomHeaders(self)
    \o (IF ~self.configuration.suppress_help_headers THEN write_help_headers ELSE <<>>)
    \o writeln_crlf(<<>>)
    \o get_body(self.compose_details)

----------------------------------------------------------------------------
(* The exchange handled by handle_eml (main.rs): the request received, the
   temporary file, and the outcome of merge_from_eml. *)

VARIABLES
    request,          \* the Compose received from Thunderbird
    file,             \* the content of the temporary file
    max_body_length,  \* the bound handed to merge_from_eml
    result,           \* what merge_from_eml returned: [ok, responses, err]
    pc,               \* where the worker of the request is
    host_version,     \* CARGO_PKG_VERSION of the build
    disk,             \* whether the temporary file is on disk
    error,            \* the messaging::Error handle_eml returned, if any
    sent,             \* the number of responses handed to write_message
    messages,         \* the calls of Transport::write_message, in order
    ping,             \* the Ping received from Thunderbird, if the request is one
    remove_file,      \* fs::remove_file of the temporary file: "not called", "ok", "err"
    reader,           \* the loop of main: "reading", or "exited" with the process
    threads,          \* the threads main has spawned, one per request, in order
    files,            \* the temporary files of the process, by path
    stdout            \* the calls of write_message of all threads, in order

vars == <<request, file, max_body_length, result, pc, host_version, disk, error, sent,
          messages, ping, remove_file, reader, threads, files, stdout>>

process == <<reader, threads, files, stdout>>

\* one request handled on its own: no other thread, the loop of main reading
NoProcess ==
    /\ reader = "reading"
    /\ threads = <<>>
    /\ files = <<>>
    /\ stdout = <<>>

\* what the codec alone leaves as it is
host == <<host_version, disk, error, sent, messages, ping, remove_file, process>>

\* messaging.rs: MAX_BODY_LENGTH = 768 * 1024
MAX_BODY_LENGTH == 786432

\* model/thunderbird.rs, tests::get_blank_compose_details
get_blank_compose_details ==
    [from |-> Email(<<"s","o","m","e","o","n","e","@","e","x","a","m","p","l","e",".","c","o","m">>),
     to |-> Single(Email(<<"s","o","m","e","o","n","e","@","e","x","a","m","p","l","e",".","c","o","m">>)),
     cc |-> Multiple(<<>>),
     bcc |-> Multiple(<<>>),
     reply_to |-> Multiple(<<>>),
     subject |-> <<>>,
     delivery_format |-> None,
     is_plain_text |-> TRUE,
     body |-> <<>>,
     plain_text_body |-> <<>>,
     priority |-> None,
     attach_vcard |-> [inner |-> None, changed |-> FALSE],
     delivery_status_notification |-> None,
     return_receipt |-> None,
     custom_headers |-> <<>>]

\* model/messaging.rs, tests::get_blank_compose
get_blank_compose ==
    [configuration |->
        [version |-> <<"0",".","0",".","0">>, sequence |-> 0, total |-> 0, shell |-> "",
         template |-> "", temporary_directory |-> "", send_on_exit |-> FALSE,
         suppress_help_headers |-> FALSE, meta_headers |-> FALSE,
         allow_custom_headers |-> FALSE, bypass_version_check |-> FALSE],
     warnings |-> <<>>,
     tab |-> [id |-> 0],
     compose_details |-> get_blank_compose_details]

NoResult == [ok |-> FALSE, responses |-> <<>>, err |-> None]

\* the codec exercised on its own: a build of the version of the blank
\* request, nothing on disk, nothing written
CodecOnly ==
    /\ host_version = get_blank_compose.configuration.version
    /\ disk = FALSE
    /\ error = None
    /\ sent = 0
    /\ messages = <<>>
    /\ ping = None
    /\ remove_file = "not called"
    /\ NoProcess

\* handle_eml: request.to_eml(&mut temp_file)
ToEml ==
    /\ pc = "request"
    /\ file' = to_eml(request)
    /\ pc' = "written"
    /\ UNCHANGED <<request, max_body_length, result>>
    /\ UNCHANGED host

\* handle_eml: response.merge_from_eml(&mut reader, max_body_length), on the
\* file as to_eml wrote it or as the editor left it
MergeFromEml ==
    /\ pc \in {"written", "edited"}
    /\ result' = merge_from_eml(request, file, max_body_length)
    /\ pc' = "merged"
    /\ UNCHANGED <<request, file, max_body_length>>
    /\ UNCHANGED host

\* the responses of a merge that has returned Ok
Merged == pc = "merged" /\ result.ok
Responses == result.responses

\* all sequences over S of length at most n
SeqsUpTo(S, n) == UNION {[1..k -> S] : k \in 0..n}

\* the body of a response that is the authoritative one
AuthoritativeBody(cd) == IF cd.is_plain_text THEN cd.plain_text_body ELSE cd.body

\* the decoded text of the file after the first line that is empty once
\* trimmed (the body of the edited document)
RECURSIVE BodyStart(_, _)
BodyStartAfter(f, pos, last) ==
    IF trim(from_utf8_lossy(SubSeq(f, pos, last))) = <<>> THEN last + 1
    ELSE BodyStart(f, last + 1)
BodyStart(f, pos) ==
    IF pos > Len(f) THEN pos
    ELSE BodyStartAfter(f, pos, LineEnd(f, FindStr(f, <<"\n">>, pos)))
DecodedBody(f) == from_utf8_lossy(SubSeq(f, BodyStart(f, 1), Len(f)))

----------------------------------------------------------------------------
(* The chunker: merge_from_eml on documents with a fixed header block and
   every body up to MaxBodyLen characters, under every bound up to MaxBound. *)

MaxBodyLen == 4
MaxBound == 3

\* the characters of the bodies: one to four bytes wide, and a byte that is
\* not valid UTF-8
BodyChars == {"a", "U+00E9", "U+1F600", "0x95"}

ChunkDocHeaders ==
    <<"F","r","o","m",":"," ","f","o","o","@","e","x","a","m","p","l","e",".","c","o","m","\r","\n","\r","\n">>

\* requests that differ in the authoritative body and in the sequence and
\* total they carry
ChunkRequests ==
    {[get_blank_compose EXCEPT !.compose_details.is_plain_text = p,
                               !.compose_details.body = <<"<","p",">","o","l","d","<","/","p",">">>,
                               !.compose_details.plain_text_body = <<"o","l","d">>,
                               !.configuration.sequence = st[1],
                               !.configuration.total = st[2]] :
        p \in BOOLEAN, st \in {<<0, 0>>, <<3, 1>>}}

InitChunk ==
    /\ request \in ChunkRequests
    /\ file \in {ChunkDocHeaders \o body : body \in SeqsUpTo(BodyChars, MaxBodyLen)}
    /\ max_body_length \in 0..MaxBound
    /\ result = NoResult
    /\ pc = "edited"
    /\ CodecOnly

NextChunk == MergeFromEml

SpecChunk == InitChunk /\ [][NextChunk]_vars

----------------------------------------------------------------------------
(* Properties of the chunker, checked under SpecChunk *)

\* the authoritative bodies of the responses, in sequence order
ChunkBodies ==
    [i \in 1..Len(Responses) |-> AuthoritativeBody(Responses[i].compose_details)]

\* the number of times a scan of body[i..] that accumulates characters, acc
\* bytes so far, exceeds the bound b and starts over
RECURSIVE FlushCount(_, _, _, _)
FlushCount(body, i, acc, b) ==
    IF i > Len(body) THEN 0
    ELSE IF acc + Utf8Width(body[i]) > b THEN 1 + FlushCount(body, i + 1, 0, b)
    ELSE FlushCount(body, i + 1, acc + Utf8Width(body[i]), b)

\* the bytes accumulated after the last time the scan started over
RECURSIVE RemainderLen(_, _, _, _)
RemainderLen(body, i, acc, b) ==
    IF i > Len(body) THEN acc
    ELSE IF acc + Utf8Width(body[i]) > b THEN RemainderLen(body, i + 1, 0, b)
    ELSE RemainderLen(body, i + 1, acc + Utf8Width(body[i]), b)

Flushes == FlushCount(DecodedBody(file), 1, 0, max_body_length)
Remainder == RemainderLen(DecodedBody(file), 1, 0, max_body_length)

\* C1: every successful merge returns n >= 1 responses, response i (from 0)
\* carries sequence i and total n, so sequence < total and the sequence
\* values are exactly 0..n-1, whatever the request carried
C1_SequenceTotal ==
    Merged =>
        /\ Len(Responses) >= 1
        /\ \A i \in 1..Len(Responses) :
              /\ Responses[i].configuration.total = Len(Responses)
              /\ Responses[i].configuration.sequence = i - 1
              /\ Responses[i].configuration.sequence < Responses[i].configuration.total
        /\ {Responses[i].configuration.sequence : i \in 1..Len(Responses)}
              = 0..(Len(Responses) - 1)

\* several responses, from a request that carried sequence 3 and total 1
C1_Witness ==
    /\ Merged
    /\ Len(Responses) >= 3
    /\ request.configuration.sequence = 3
    /\ request.configuration.total = 1

\* C2: the authoritative bodies of the responses, concatenated in sequence
\* order, are the decoded body of the document
C2_ConcatIsBody ==
    Merged => Concat(ChunkBodies) = DecodedBody(file)

\* a body of multi-byte characters and a replaced invalid byte, split in two
\* or more
C2_Witness ==
    /\ Merged
    /\ Len(Responses) >= 2
    /\ \E i \in 1..Len(DecodedBody(file)) : DecodedBody(file)[i] = "U+FFFD"
    /\ \E i \in 1..Len(DecodedBody(file)) : DecodedBody(file)[i] = "U+1F600"
    /\ ChunkBodies[Len(Responses)] # <<>>

\* C3 as stated: every chunk has byte length at most the bound, and a body
\* shorter than the bound yields one chunk, the whole body
C3_Original ==
    Merged =>
        /\ \A i \in 1..Len(Responses) : len(ChunkBodies[i]) <= max_body_length
        /\ len(DecodedBody(file)) < max_body_length
              => ChunkBodies = <<DecodedBody(file)>>

\* C3 amended: a chunk is flushed by the character that takes it past the
\* bound, so every chunk is at most the bound without its last character,
\* every chunk but the last is longer than the bound, and a body no longer
\* than the bound yields one chunk, the whole body
C3_ChunkLength ==
    Merged =>
        /\ \A i \in 1..Len(Responses) :
              /\ ChunkBodies[i] # <<>> =>
                    len(SubSeq(ChunkBodies[i], 1, Len(ChunkBodies[i]) - 1)) <= max_body_length
              /\ len(ChunkBodies[i]) <= max_body_length + 4
              /\ i < Len(Responses) => len(ChunkBodies[i]) > max_body_length
        /\ len(DecodedBody(file)) <= max_body_length
              => ChunkBodies = <<DecodedBody(file)>>

\* a positive bound, a chunk longer than the bound and a last chunk within it
C3_Witness ==
    /\ Merged
    /\ max_body_length >= 2
    /\ Len(Responses) >= 2
    /\ len(ChunkBodies[1]) = max_body_length + 4
    /\ len(ChunkBodies[Len(Responses)]) <= max_body_length

\* C4 as stated: the responses are one more than the flushes, and a body
\* that needs no flush yields one response holding the whole body
C4_Original ==
    Merged =>
        /\ Len(Responses) = Flushes + 1
        /\ Flushes = 0 => ChunkBodies = <<DecodedBody(file)>>

\* C4 amended: the chunk left after the last flush is emitted when it is not
\* empty or when nothing was flushed; a body that ends on a flush yields as
\* many responses as flushes
C4_LastChunk ==
    Merged =>
        /\ Len(Responses) = Flushes + (IF Remainder > 0 \/ Flushes = 0 THEN 1 ELSE 0)
        /\ Flushes = 0 => ChunkBodies = <<DecodedBody(file)>>

\* a body that ends on a flush: as many responses as flushes
C4_Witness ==
    /\ Merged
    /\ Flushes >= 2
    /\ Remainder = 0
    /\ Len(Responses) = Flushes

----------------------------------------------------------------------------
(* The header block: merge_from_eml on documents whose header block is any
   sequence of at most MaxHeaderLines lines of HeaderPool.  Each line of the
   pool is given with what it says: the recipients, custom headers and
   unrecognised names it names, the values it gives Allow-X-Headers and
   Send-On-Exit, and whether its value is empty. *)

MaxHeaderLines == 3

HeaderLine(text) ==
    [text |-> text, empty |-> FALSE, to |-> <<>>, custom |-> <<>>, unknown |-> <<>>,
     allow |-> None, send |-> None]

HeaderPool ==
    {[HeaderLine(<<"T","o",":"," ","a","@","x",".","o","r","g">>) EXCEPT !.to = <<Email(<<"a","@","x",".","o","r","g">>)>>],
     [HeaderLine(<<"T","o",":">>) EXCEPT !.empty = TRUE],
     [HeaderLine(<<"F","o","o",":"," ","b","a","r">>) EXCEPT !.unknown = <<<<"F","o","o">>>>],
     [HeaderLine(<<"B","a","r",":">>) EXCEPT !.unknown = <<<<"B","a","r">>>>, !.empty = TRUE],
     [HeaderLine(<<"x","-","b","a","z",":"," ","1">>) EXCEPT
         !.custom = <<[name |-> <<"X","-","b","a","z">>, value |-> <<"1">>]>>],
     [HeaderLine(<<"X","-","E","x","t","E","d","i","t","o","r","R","-","A","l","l","o","w","-","X","-","H","e","a","d","e","r","s",":"," ","t","r","u","e">>) EXCEPT !.allow = Some(TRUE)],
     [HeaderLine(<<"X","-","E","x","t","E","d","i","t","o","r","R","-","A","l","l","o","w","-","X","-","H","e","a","d","e","r","s",":"," ","f","a","l","s","e">>) EXCEPT !.allow = Some(FALSE)],
     [HeaderLine(<<"X","-","E","x","t","E","d","i","t","o","r","R","-","S","e","n","d","-","O","n","-","E","x","i","t",":"," ","t","r","u","e">>) EXCEPT !.send = Some(<<"t","r","u","e">>)],
     [HeaderLine(<<"x","-","e","x","t","e","d","i","t","o","r","r","-","s","e","n","d","-","o","n","-","e","x","i","t",":"," ","T","r","u","e">>) EXCEPT !.send = Some(<<"T","r","u","e">>)],
     [HeaderLine(<<"X","-","E","x","t","E","d","i","t","o","r","R","-","S","e","n","d","-","O","n","-","E","x","i","t",":">>) EXCEPT !.send = Some(<<>>), !.empty = TRUE],
     [HeaderLine(<<"X","-","E","x","t","E","d","i","t","o","r","R",":"," ","S","e","n","d","-","O","n","-","E","x","i","t",":"," ","t","r","u","e",","," ","A","l","l","o","w","-","X","-","H","e","a","d","e","r","s",":"," ","t","r","u","e">>) EXCEPT
         !.send = Some(<<"t","r","u","e">>), !.allow = Some(TRUE)],
     [HeaderLine(<<"T","o",":"," ","b","@","x",".","o","r","g">>) EXCEPT !.to = <<Email(<<"b","@","x",".","o","r","g">>)>>]}

\* the document of a sequence of lines: the lines, an empty line, the body
HeaderDocument(lines) ==
    Concat([i \in 1..Len(lines) |-> writeln_crlf(lines[i].text)])
    \o CRLF \o <<"h","e","l","l","o">>

\* what the request carries from before the edit
OldWarning == [title |-> "Earlier", message |-> <<"e","a","r","l","i","e","r">>]

HeaderRequests ==
    {[get_blank_compose EXCEPT
         !.configuration.allow_custom_headers = v[1],
         !.configuration.send_on_exit = TRUE,
         !.warnings = v[2],
         !.compose_details.to = Single(Email(<<"o","l","d","@","x",".","o","r","g">>)),
         !.compose_details.cc = Multiple(<<Email(<<"o","l","d","@","x",".","o","r","g">>), Email(<<"o","l","d","e","r","@","x",".","o","r","g">>)>>),
         !.compose_details.bcc = Multiple(<<Email(<<"o","l","d","@","x",".","o","r","g">>)>>),
         !.compose_details.reply_to = Single(Email(<<"o","l","d","@","x",".","o","r","g">>)),
         !.compose_details.custom_headers = <<[name |-> <<"X","-","O","l","d">>, value |-> <<"o","l","d">>]>>] :
        v \in {<<FALSE, <<>> >>, <<TRUE, <<>> >>, <<TRUE, <<OldWarning>> >>}}

InitHeaders ==
    /\ request \in HeaderRequests
    /\ file \in {HeaderDocument(lines) : lines \in SeqsUpTo(HeaderPool, MaxHeaderLines)}
    /\ max_body_length = 1
    /\ result = NoResult
    /\ pc = "edited"
    /\ CodecOnly

NextHeaders == MergeFromEml

SpecHeaders == InitHeaders /\ [][NextHeaders]_vars

\* the lines of the header block of the file, as lines of the pool
RECURSIVE DocLinesFrom(_, _)
DocLinesFrom(texts, i) ==
    IF i > Len(texts) \/ texts[i] = <<"\r">> THEN <<>>
    ELSE <<CHOOSE l \in HeaderPool : l.text \o <<"\r">> = texts[i]>>
         \o DocLinesFrom(texts, i + 1)
DocLines == DocLinesFrom(split(file, "\n"), 1)

\* the value of Allow-X-Headers after lines[1..i]: the last one given, or the
\* one the request carried
RECURSIVE LastAllow(_, _)
LastAllow(lines, i) ==
    IF i = 0 THEN request.configuration.allow_custom_headers
    ELSE IF IsSome(lines[i].allow) THEN Unwrap(lines[i].allow)
    ELSE LastAllow(lines, i - 1)

\* the last value of Send-On-Exit in lines[1..i] that is not empty, if any
RECURSIVE LastSend(_, _)
LastSend(lines, i) ==
    IF i = 0 THEN None
    ELSE IF IsSome(lines[i].send) /\ Unwrap(lines[i].send) # <<>> THEN lines[i].send
    ELSE LastSend(lines, i - 1)

\* the names of the custom headers of a line
CustomNames(line) == [k \in 1..Len(line.custom) |-> line.custom[k].name]

\* what the header block says, line after line: the recipients, the custom
\* headers, the unrecognised names (all of them, and those with a value), the
\* names of the headers that are neither reserved nor accepted custom
\* headers, the final Allow-X-Headers, the last Send-On-Exit value
DocOf(lines, allow) ==
    [lines |-> lines,
     to |-> Concat([i \in 1..Len(lines) |-> lines[i].to]),
     custom |-> Concat([i \in 1..Len(lines) |-> lines[i].custom]),
     custom_names |-> Concat([i \in 1..Len(lines) |-> CustomNames(lines[i])]),
     unknown |-> Concat([i \in 1..Len(lines) |->
                            IF lines[i].empty THEN <<>> ELSE lines[i].unknown]),
     not_accepted |-> Concat([i \in 1..Len(lines) |->
                                 lines[i].unknown
                                 \o (IF allow THEN <<>> ELSE CustomNames(lines[i]))]),
     allow |-> allow,
     send |-> LastSend(lines, Len(lines)),
     no_send |-> \A i \in 1..Len(lines) : lines[i].send = None]

DocAllowed(lines) == DocOf(lines, LastAllow(lines, Len(lines)))
Doc == DocAllowed(DocLines)

\* the text of the warning that names the given headers
WarningFor(names) ==
    [title |-> "Unknown header(s) found",
     message |-> <<"E","x","t","E","d","i","t","o","r","R"," ","d","i","d"," ","n","o","t"," ","r","e","c","o","g","n","i","s","e"," ","t","h","e"," ","f","o","l","l","o","w","i","n","g"," ","h","e","a","d","e","r","s",":">>
                 \o Concat([i \in 1..Len(names) |-> <<"\n","-"," ">> \o names[i]])]

----------------------------------------------------------------------------
(* Properties of the header block, checked under SpecHeaders *)

\* C5 as stated: a header that is neither reserved nor an accepted custom
\* header makes every response carry one more warning, naming every such
\* header in document order, and send-on-exit false
C5_Original ==
    LET doc == Doc
    IN  (Merged /\ doc.not_accepted # <<>>) =>
            \A i \in 1..Len(Responses) :
                /\ Responses[i].warnings
                      = Append(request.warnings, WarningFor(doc.not_accepted))
                /\ ~Responses[i].configuration.send_on_exit

\* C5 amended: a header with a value that is not empty and that is neither
\* reserved nor an accepted custom header makes every response carry one
\* more warning and send-on-exit false; the warning names the unrecognised
\* headers whose value is not empty, in document order, and after them the
\* custom headers refused because custom headers are not allowed, in
\* document order
C5_UnknownWarning ==
    LET doc == Doc
        names == doc.unknown \o (IF doc.allow THEN <<>> ELSE doc.custom_names)
    IN  (Merged /\ names # <<>>) =>
            \A i \in 1..Len(Responses) :
                /\ Responses[i].warnings = Append(request.warnings, WarningFor(names))
                /\ ~Responses[i].configuration.send_on_exit

\* an unrecognised header after a refused custom header, in a block that
\* asks to send on exit
C5_Witness ==
    LET doc == Doc
    IN  /\ Merged
        /\ Len(Responses) >= 2
        /\ ~doc.allow
        /\ doc.send = Some(<<"t", "r", "u", "e">>)
        /\ \E i, j \in 1..Len(doc.lines) :
              /\ i < j
              /\ doc.lines[i].custom # <<>>
              /\ doc.lines[j].unknown # <<>> /\ ~doc.lines[j].empty

\* C6: send-on-exit is true in a response exactly when the last Send-On-Exit
\* value that is not empty is "true" and the response has no warning; no
\* Send-On-Exit value makes the merge fail
C6_SendOnExit ==
    LET doc == Doc
    IN  /\ Merged =>
              \A i \in 1..Len(Responses) :
                  Responses[i].configuration.send_on_exit
                      <=> (/\ doc.send = Some(<<"t", "r", "u", "e">>)
                           /\ Responses[i].warnings = <<>>)
        /\ pc = "merged" => result.ok

\* send-on-exit comes back true from a block whose Send-On-Exit values are
\* "True", then "true", then empty
C6_Witness ==
    LET doc == Doc
    IN  /\ Merged
        /\ Responses[1].configuration.send_on_exit
        /\ Len(doc.lines) = 3
        /\ doc.lines[1].send = Some(<<"T", "r", "u", "e">>)
        /\ doc.lines[2].send = Some(<<"t", "r", "u", "e">>)
        /\ doc.lines[3].send = Some(<<>>)

\* C7 as stated: the recipient lists and the custom headers of every
\* response are the entries the block gives, in document order (the block
\* has no Cc, Bcc or Reply-To line), and
\* send-on-exit is false when the block has no Send-On-Exit header
C7_Original ==
    LET doc == Doc
    IN  Merged =>
            \A i \in 1..Len(Responses) :
                /\ Responses[i].compose_details.to = Multiple(doc.to)
                /\ Responses[i].compose_details.cc = Multiple(<<>>)
                /\ Responses[i].compose_details.bcc = Multiple(<<>>)
                /\ Responses[i].compose_details.reply_to = Multiple(<<>>)
                /\ Responses[i].compose_details.custom_headers = doc.custom
                /\ doc.no_send => ~Responses[i].configuration.send_on_exit

\* C7 amended: the recipient lists of every response are the entries the
\* block gives, in document order (the block has no Cc, Bcc or Reply-To
\* line); the custom headers are those the block
\* gives when custom headers are allowed after the block and none otherwise;
\* send-on-exit is false when the block has no Send-On-Exit header
C7_ResetBeforeParse ==
    LET doc == Doc
    IN  Merged =>
            \A i \in 1..Len(Responses) :
                /\ Responses[i].compose_details.to = Multiple(doc.to)
                /\ Responses[i].compose_details.cc = Multiple(<<>>)
                /\ Responses[i].compose_details.bcc = Multiple(<<>>)
                /\ Responses[i].compose_details.reply_to = Multiple(<<>>)
                /\ Responses[i].compose_details.custom_headers
                      = (IF doc.allow THEN doc.custom ELSE <<>>)
                /\ doc.no_send => ~Responses[i].configuration.send_on_exit

\* a block with two To lines and a To line with no value, no Cc line and no
\* Send-On-Exit header, from a request that carried recipients, a custom
\* header and send-on-exit
C7_Witness ==
    LET doc == Doc
    IN  /\ Merged
        /\ request.configuration.send_on_exit
        /\ request.configuration.allow_custom_headers
        /\ doc.to = <<Email(<<"b", "@", "x", ".", "o", "r", "g">>),
                      Email(<<"a", "@", "x", ".", "o", "r", "g">>)>>
        /\ \E k \in 1..Len(doc.lines) : doc.lines[k].empty /\ doc.lines[k].text[1] = "T"
        /\ doc.no_send

\* C8: the custom headers read are kept when custom headers are allowed
\* after the whole block and otherwise removed and named in the warning, so
\* a response with custom headers allows them
C8_CustomHeadersDecidedLast ==
    LET doc == Doc
    IN  Merged =>
            \A i \in 1..Len(Responses) :
                /\ Responses[i].configuration.allow_custom_headers = doc.allow
                /\ doc.allow => Responses[i].compose_details.custom_headers = doc.custom
                /\ ~doc.allow =>
                      /\ Responses[i].compose_details.custom_headers = <<>>
                      /\ \A k \in 1..Len(doc.custom_names) :
                            contains(Responses[i].warnings[Len(Responses[i].warnings)].message,
                                     <<"\n", "-", " ">> \o doc.custom_names[k])
                /\ Responses[i].compose_details.custom_headers # <<>>
                      => Responses[i].configuration.allow_custom_headers

\* custom headers kept by an Allow-X-Headers: true line that comes after
\* them, in a request that did not allow them
C8_Witness ==
    LET doc == Doc
    IN  /\ Merged
        /\ ~request.configuration.allow_custom_headers
        /\ Responses[1].compose_details.custom_headers # <<>>
        /\ \E i, j \in 1..Len(doc.lines) :
              i < j /\ doc.lines[i].custom # <<>> /\ doc.lines[j].allow = Some(TRUE)

----------------------------------------------------------------------------
(* The round trip: to_eml writes the request to the temporary file and
   merge_from_eml reads the file back unedited, under MAX_BODY_LENGTH. *)

\* the recipients of the requests: two addresses and two address book nodes
RecipientA == Email(<<"a","@","x",".","o","r","g">>)
RecipientB == Email(<<"B"," ","<","b","@","x",".","o","r","g",">">>)
RecipientC == Node(<<"n","\"","1">>, "contact")
RecipientL == Node(<<"l","\\","\\","2">>, "mailingList")

\* from, to, cc, bcc, reply_to; the last plan has an address that starts
\* with a brace and is no JSON
RecipientPlans ==
    {<<RecipientA, Single(RecipientA), Multiple(<<>>), Multiple(<<>>), Multiple(<<>>)>>,
     <<RecipientC, Multiple(<<RecipientA, RecipientC, RecipientB>>), Single(RecipientC),
       Multiple(<<RecipientL>>), Single(RecipientB)>>,
     <<RecipientB, Multiple(<<>>), Multiple(<<RecipientB, RecipientA>>),
       Single(RecipientA), Multiple(<<RecipientC, RecipientL>>)>>,
     <<RecipientA, Single(Email(<<"{","a","@","x",".","o","r","g">>)), Multiple(<<>>), Multiple(<<>>),
       Multiple(<<>>)>>}

Subjects == {<<>>, <<"R","e",":"," ","a",","," ","b">>, <<" ","p","a","d","d","e","d"," ">>}

\* is_plain_text and the text of the authoritative body
BodyPlans ==
    {<<TRUE, <<"x","\n","y","\n">>>>, <<FALSE, <<"<","p",">","\r","\n","\r","\n"," ","y","<","/","p",">">>>>, <<TRUE, <<>> >>}

\* the custom headers: none, one outside X-ExtEditorR, two named like
\* reserved headers, one with a value that holds ',' and ':', one with an
\* empty value, one with a padded value, one with a name in small letters
CustomHeaderPlans ==
    {<<>>,
     <<[name |-> <<"X","-","F","o","o">>, value |-> <<"b","a","r">>]>>,
     <<[name |-> <<"X","-","E","x","t","e","d","i","t","o","r","r","-","P","r","i","o","r","i","t","y">>, value |-> <<"h","i","g","h","e","s","t">>],
       [name |-> <<"X","-","E","x","t","E","d","i","t","o","r","R","-","S","e","n","d","-","O","n","-","E","x","i","t">>, value |-> <<"t","r","u","e">>]>>,
     <<[name |-> <<"X","-","F","o","o">>, value |-> <<"b","a","r">>],
       [name |-> <<"X","-","E","x","t","E","d","i","t","o","r","R","-","D","e","l","i","v","e","r","y","-","F","o","r","m","a","t">>, value |-> <<"a",","," ","b",":"," ","c">>]>>,
     <<[name |-> <<"X","-","E","x","t","E","d","i","t","o","r","R","-","H","e","l","p">>, value |-> <<>>]>>,
     <<[name |-> <<"X","-","E","x","t","E","d","i","t","o","r","R","-","F","o","o">>, value |-> <<" ","p","a","d","d","e","d"," ">>]>>,
     <<[name |-> <<"x","-","e","x","t","e","d","i","t","o","r","r","-","b","a","r">>, value |-> <<"b","a","z">>]>>}

\* the optional fields: none set, or all set
OptionalPlans ==
    {[priority |-> None, delivery_format |-> None,
      attach_vcard |-> [inner |-> None, changed |-> FALSE],
      delivery_status_notification |-> None, return_receipt |-> None,
      send_on_exit |-> FALSE, allow_custom_headers |-> FALSE,
      suppress_help_headers |-> TRUE],
     [priority |-> Some("Low"), delivery_format |-> Some(Some("Both")),
      attach_vcard |-> TrackedOptionBool_new(TRUE),
      delivery_status_notification |-> Some(TRUE), return_receipt |-> Some(FALSE),
      send_on_exit |-> TRUE, allow_custom_headers |-> TRUE,
      suppress_help_headers |-> FALSE]}

RoundTripRequest(meta_headers, r, subject, b, custom_headers, o) ==
    [get_blank_compose EXCEPT
        !.configuration.meta_headers = meta_headers,
        !.configuration.send_on_exit = o.send_on_exit,
        !.configuration.allow_custom_headers = o.allow_custom_headers,
        !.configuration.suppress_help_headers = o.suppress_help_headers,
        !.compose_details.from = r[1],
        !.compose_details.to = r[2],
        !.compose_details.cc = r[3],
        !.compose_details.bcc = r[4],
        !.compose_details.reply_to = r[5],
        !.compose_details.subject = subject,
        !.compose_details.is_plain_text = b[1],
        !.compose_details.body = IF b[1] THEN <<>> ELSE b[2],
        !.compose_details.plain_text_body = IF b[1] THEN b[2] ELSE <<>>,
        !.compose_details.priority = o.priority,
        !.compose_details.delivery_format = o.delivery_format,
        !.compose_details.attach_vcard = o.attach_vcard,
        !.compose_details.delivery_status_notification = o.delivery_status_notification,
        !.compose_details.return_receipt = o.return_receipt,
        !.compose_details.custom_headers = custom_headers]

RoundTripRequests ==
    {RoundTripRequest(m, r, s, b, c, o) :
        m \in BOOLEAN, r \in RecipientPlans, s \in Subjects, b \in BodyPlans,
        c \in CustomHeaderPlans, o \in OptionalPlans}

InitRoundTrip ==
    /\ request \in RoundTripRequests
    /\ file = <<>>
    /\ max_body_length = MAX_BODY_LENGTH
    /\ result = NoResult
    /\ pc = "request"
    /\ CodecOnly

NextRoundTrip == ToEml \/ MergeFromEml

SpecRoundTrip == InitRoundTrip /\ [][NextRoundTrip]_vars

----------------------------------------------------------------------------
(* Properties of the round trip, checked under SpecRoundTrip *)

\* the custom headers of the request whose name starts with X-ExtEditorR,
\* whatever the case
EscapedHeaders ==
    SelectSeq(request.compose_details.custom_headers,
              LAMBDA h : starts_with(to_lowercase(h.name), HEADER_LOWER_META))

\* the lines of the file, without their line ends
FileLines == [i \in 1..Len(split(file, "\n")) |-> trim_end(split(file, "\n")[i])]

\* the name to_eml writes after the first prefix
EmittedName(h) == replace(h.name, HEADER_NORMALISED_META, HEADER_META)

\* line holds the header name: value, the value up to the white space around it
HoldsHeader(line, name, value) ==
    /\ starts_with(line, name \o <<":">>)
    /\ trim(SubSeq(line, Len(name) + 2, Len(line))) = trim(value)

\* one of the headers of an X-ExtEditorR line is name: value, up to the
\* white space that aligns the columns
HoldsCompactHeader(line, name, value) ==
    \E k \in Occurrences(line, <<" ">> \o name \o <<":">>, 1) :
        \/ trim(SubSeq(line, k + Len(name) + 2, Len(line))) = trim(value)
        \/ \E n \in 0..Len(line) :
              starts_with(trim(SubSeq(line, k + Len(name) + 2, Len(line))),
                          trim(value) \o Spaces(n) \o <<",">>)

\* to_eml has written the header with the prefix doubled: on a line of its
\* own, or among the headers of an X-ExtEditorR line
IsDoubled(lines, h) ==
    \E i \in 1..Len(lines) :
        \/ HoldsHeader(lines[i], HEADER_META \o <<"-">> \o EmittedName(h), h.value)
        \/ /\ request.configuration.meta_headers
           /\ starts_with(lines[i], HEADER_META \o <<":"," ">>)
           /\ HoldsCompactHeader(lines[i], EmittedName(h), h.value)

\* the response holds the header once, under the name written after the
\* first prefix and with its value
IsReturned(custom_headers, name, value) ==
    Cardinality({k \in 1..Len(custom_headers) :
                    /\ custom_headers[k].name = name
                    /\ custom_headers[k].value = value}) = 1

\* a name with a leading "x-" written "X-"
UpperX(name) ==
    IF starts_with(name, <<"x","-">>) THEN <<"X","-">> \o SubSeq(name, 3, Len(name)) ELSE name

\* the fields of the reserved headers are those of the request
ReservedUnchanged(response) ==
    /\ response.compose_details.priority = request.compose_details.priority
    /\ response.compose_details.delivery_format = request.compose_details.delivery_format
    /\ response.compose_details.attach_vcard = request.compose_details.attach_vcard
    /\ response.compose_details.delivery_status_notification
          = request.compose_details.delivery_status_notification
    /\ response.compose_details.return_receipt = request.compose_details.return_receipt
    /\ response.configuration.send_on_exit = request.configuration.send_on_exit
    /\ response.configuration.allow_custom_headers

\* the round trip of one escaped header that is to come back as name
EscapedRoundTrip(h, name) ==
    /\ pc # "request" => IsDoubled(FileLines, h)
    /\ pc = "merged" =>
          /\ result.ok
          /\ \A i \in 1..Len(Responses) :
                /\ IsReturned(Responses[i].compose_details.custom_headers, name, h.value)
                /\ Responses[i].warnings = <<>>
                /\ ReservedUnchanged(Responses[i])

\* the recipients are representable on one line: not empty, no white space
\* at either end, no CR or LF, an address not starting with a brace
OneLineRecipient(r) ==
    IF r.kind = "Email"
    THEN /\ r.email # <<>>
         /\ trim(r.email) = r.email
         /\ r.email[1] # "{"
         /\ \A k \in 1..Len(r.email) : r.email[k] \notin {"\r", "\n"}
    ELSE TRUE
OneLineList(list) == \A k \in 1..Len(list.l) : OneLineRecipient(list.l[k])
OneLineRequest ==
    /\ OneLineRecipient(request.compose_details.from)
    /\ OneLineList(request.compose_details.to)
    /\ OneLineList(request.compose_details.cc)
    /\ OneLineList(request.compose_details.bcc)
    /\ OneLineList(request.compose_details.reply_to)
    /\ \A k \in 1..Len(request.compose_details.subject) :
          request.compose_details.subject[k] \notin {"\r", "\n"}

\* a text without its carriage returns
StripCR(text) == SelectSeq(text, LAMBDA c : c # "\r")

\* the responses reproduce the sender, the recipients, the subject and the
\* authoritative body of the request
Reproduced ==
    /\ result.ok
    /\ \A i \in 1..Len(Responses) :
          /\ Responses[i].compose_details.from = request.compose_details.from
          /\ Responses[i].compose_details.to = Multiple(request.compose_details.to.l)
          /\ Responses[i].compose_details.cc = Multiple(request.compose_details.cc.l)
          /\ Responses[i].compose_details.bcc = Multiple(request.compose_details.bcc.l)
          /\ Responses[i].compose_details.reply_to
                = Multiple(request.compose_details.reply_to.l)
          /\ Responses[i].compose_details.subject = request.compose_details.subject
          /\ Responses[i].compose_details.is_plain_text
                = request.compose_details.is_plain_text
    /\ StripCR(Concat(ChunkBodies)) = StripCR(AuthoritativeBody(request.compose_details))

\* the value of a custom header is not empty and on one line, with no white
\* space at either end
OneLineValue(value) ==
    /\ value # <<>>
    /\ trim(value) = value
    /\ \A k \in 1..Len(value) : value[k] \notin {"\r", "\n"}

\* C9 as stated, for the requests whose recipients and subject are
\* representable on one line: every custom header named X-ExtEditorR... is
\* written with the prefix doubled and read back with the prefix removed once
\* and the same value, with no warning and no reserved field changed
C9_Original ==
    OneLineRequest =>
        \A k \in 1..Len(EscapedHeaders) :
            EscapedRoundTrip(EscapedHeaders[k], EmittedName(EscapedHeaders[k]))

\* C9 amended: in a request whose recipients and subject are representable
\* on one line, every custom header named X-ExtEditorR... whose value is on
\* one line, not empty and without white space at either end is written with
\* the prefix doubled and read back once with the prefix removed once (a
\* leading "x-" of the name comes back as "X-") and the same value, with no
\* warning and no reserved field changed
C9_EscapedRoundTrip ==
    OneLineRequest =>
        \A k \in 1..Len(EscapedHeaders) :
            OneLineValue(EscapedHeaders[k].value)
                => EscapedRoundTrip(EscapedHeaders[k],
                                    UpperX(EmittedName(EscapedHeaders[k])))

\* compact mode: headers named like Priority and Send-On-Exit came back as
\* custom headers of a request with neither priority nor send-on-exit
C9_Witness ==
    /\ Merged
    /\ request.configuration.meta_headers
    /\ Len(EscapedHeaders) = 2
    /\ EscapedHeaders[2].name = HEADER_SEND_ON_EXIT
    /\ EscapedHeaders[2].value = <<"t", "r", "u", "e">>
    /\ ~Responses[1].configuration.send_on_exit
    /\ Responses[1].compose_details.priority = None
    /\ Len(Responses[1].compose_details.custom_headers) = 2

\* C10 as stated: a request whose recipients and subject are representable
\* on one line comes back with its sender, recipients, subject and body
C10_Original ==
    (pc = "merged" /\ OneLineRequest) => Reproduced

\* C10 amended: a request whose recipients and subject are representable on
\* one line, and whose subject has no white space at either end, comes back
\* with its sender, recipients, subject and body
C10_RoundTrip ==
    (/\ pc = "merged"
     /\ OneLineRequest
     /\ trim(request.compose_details.subject) = request.compose_details.subject)
        => Reproduced

\* compact mode: three recipients in To, a node in From, single-recipient
\* lists, a subject with ':' and ',' and an HTML body
C10_Witness ==
    /\ Merged
    /\ request.configuration.meta_headers
    /\ request.compose_details.from.kind = "Node"
    /\ Len(Responses[1].compose_details.to.l) = 3
    /\ request.compose_details.cc.kind = "Single"
    /\ Responses[1].compose_details.cc.kind = "Multiple"
    /\ contains(Responses[1].compose_details.subject, <<":">>)
    /\ ~Responses[1].compose_details.is_plain_text
    /\ Responses[1].compose_details.body # <<>>

----------------------------------------------------------------------------
(* The X-ExtEditorR headers written by to_eml, for requests that differ in
   the optional fields, in both modes. *)

DeliveryFormatPlans ==
    {None, Some(None), Some(Some("Auto")), Some(Some("PlainText")), Some(Some("Html")),
     Some(Some("Both"))}

AttachVcardPlans ==
    {[inner |-> None, changed |-> FALSE], TrackedOptionBool_new(TRUE),
     TrackedOptionBool_new(FALSE)}

\* no custom header, or one that goes with the X-ExtEditorR headers
EmitCustomHeaderPlans ==
    {<<>>, <<[name |-> <<"X","-","E","x","t","E","d","i","t","o","r","R","-","F","o","o">>, value |-> <<"b","a","r">>]>>}

EmitRequests ==
    {[get_blank_compose EXCEPT
         !.configuration.meta_headers = m,
         !.configuration.send_on_exit = s,
         !.configuration.suppress_help_headers = TRUE,
         !.compose_details.priority = p,
         !.compose_details.delivery_format = d,
         !.compose_details.attach_vcard = a,
         !.compose_details.delivery_status_notification = n,
         !.compose_details.return_receipt = r,
         !.compose_details.custom_headers = c] :
        m \in BOOLEAN, s \in BOOLEAN, p \in {None, Some("High")},
        d \in DeliveryFormatPlans, a \in AttachVcardPlans, n \in {None, Some(TRUE)},
        r \in {None, Some(FALSE)}, c \in EmitCustomHeaderPlans}

InitEmit ==
    /\ request \in EmitRequests
    /\ file = <<>>
    /\ max_body_length = MAX_BODY_LENGTH
    /\ result = NoResult
    /\ pc = "request"
    /\ CodecOnly

NextEmit == ToEml

SpecEmit == InitEmit /\ [][NextEmit]_vars

\* the file holds the X-ExtEditorR header of this name (after the prefix)
\* and value: on a line of its own, or among the headers of an X-ExtEditorR
\* line in compact mode
Emitted(lines, name, value) ==
    \E i \in 1..Len(lines) :
        IF request.configuration.meta_headers
        THEN /\ starts_with(lines[i], HEADER_META \o <<":"," ">>)
             /\ HoldsCompactHeader(lines[i], name, value)
        ELSE HoldsHeader(lines[i], HEADER_META \o <<"-">> \o name, value)

\* the file holds an X-ExtEditorR header of this name, whatever its value
EmitsName(lines, name) ==
    \E i \in 1..Len(lines) :
        IF request.configuration.meta_headers
        THEN /\ starts_with(lines[i], HEADER_META \o <<":"," ">>)
             /\ contains(lines[i], <<" ">> \o name \o <<":">>)
        ELSE starts_with(lines[i], HEADER_META \o <<"-">> \o name \o <<":">>)

\* C12 as stated: the explicit auto state is written [auto] and a concrete
\* delivery format is written without brackets
C12_Original ==
    LET d == request.compose_details.delivery_format
    IN  pc = "written" =>
            /\ d = Some(None) => Emitted(FileLines, <<"D","e","l","i","v","e","r","y","-","F","o","r","m","a","t">>, <<"[","a","u","t","o","]">>)
            /\ d = Some(Some("PlainText"))
                  => Emitted(FileLines, <<"D","e","l","i","v","e","r","y","-","F","o","r","m","a","t">>, <<"p","l","a","i","n","t","e","x","t">>)
            /\ d = Some(Some("Html")) => Emitted(FileLines, <<"D","e","l","i","v","e","r","y","-","F","o","r","m","a","t">>, <<"h","t","m","l">>)
            /\ d = Some(Some("Both")) => Emitted(FileLines, <<"D","e","l","i","v","e","r","y","-","F","o","r","m","a","t">>, <<"b","o","t","h">>)

\* C12 amended: every delivery format the request holds is written in
\* brackets: [auto] for the explicit auto state and for the format auto,
\* [plaintext], [html] and [both] for the others; a request that holds none
\* gets no Delivery-Format header
C12_DeliveryFormatBracketed ==
    LET d == request.compose_details.delivery_format
    IN  pc = "written" =>
            /\ d \in {Some(None), Some(Some("Auto"))}
                  => Emitted(FileLines, <<"D","e","l","i","v","e","r","y","-","F","o","r","m","a","t">>, <<"[","a","u","t","o","]">>)
            /\ d = Some(Some("PlainText"))
                  => Emitted(FileLines, <<"D","e","l","i","v","e","r","y","-","F","o","r","m","a","t">>, <<"[","p","l","a","i","n","t","e","x","t","]">>)
            /\ d = Some(Some("Html")) => Emitted(FileLines, <<"D","e","l","i","v","e","r","y","-","F","o","r","m","a","t">>, <<"[","h","t","m","l","]">>)
            /\ d = Some(Some("Both")) => Emitted(FileLines, <<"D","e","l","i","v","e","r","y","-","F","o","r","m","a","t">>, <<"[","b","o","t","h","]">>)
            /\ d = None => ~EmitsName(FileLines, <<"D","e","l","i","v","e","r","y","-","F","o","r","m","a","t">>)

\* the format both, written in compact mode
C12_Witness ==
    /\ pc = "written"
    /\ request.configuration.meta_headers
    /\ request.compose_details.delivery_format = Some(Some("Both"))
    /\ Emitted(FileLines, <<"D","e","l","i","v","e","r","y","-","F","o","r","m","a","t">>, <<"[","b","o","t","h","]">>)

\* the X-ExtEditorR headers to_eml has to write for the request, in the
\* order of to_eml: the name after the prefix and the value
ReservedToWrite ==
    LET cd == request.compose_details
    IN  (IF IsSome(cd.priority) THEN <<<<"P","r","i","o","r","i","t","y">>>> ELSE <<>>)
        \o (IF IsSome(cd.delivery_format) THEN <<<<"D","e","l","i","v","e","r","y","-","F","o","r","m","a","t">>>> ELSE <<>>)
        \o (IF IsSome(cd.attach_vcard.inner) THEN <<<<"A","t","t","a","c","h","-","v","C","a","r","d">>>> ELSE <<>>)
        \o (IF IsSome(cd.delivery_status_notification) THEN <<<<"D","S","N">>>> ELSE <<>>)
        \o (IF IsSome(cd.return_receipt) THEN <<<<"R","e","t","u","r","n","-","R","e","c","e","i","p","t">>>> ELSE <<>>)
        \o <<<<"A","l","l","o","w","-","X","-","H","e","a","d","e","r","s">>, <<"S","e","n","d","-","O","n","-","E","x","i","t">>>>
        \o [k \in 1..Len(cd.custom_headers) |-> cd.custom_headers[k].name]

\* the lines of the file that start with "X-ExtEditorR:"
CompactLines == SelectSeq(FileLines, LAMBDA l : starts_with(l, HEADER_META \o <<":">>))

\* the number of headers on a compact line: its values hold no comma
HeadersOn(line) == Len(split(line, ","))

\* line holds the headers names[j] and, if there is one, names[j + 1], in
\* this order and no other
HoldsPair(line, names, j) ==
    /\ starts_with(line, HEADER_META \o <<":"," ">> \o names[j] \o <<":">>)
    /\ HeadersOn(line) = IF j < Len(names) THEN 2 ELSE 1
    /\ j < Len(names) => contains(line, <<","," ">> \o names[j + 1] \o <<":">>)

\* C13 as stated: in compact mode the X-ExtEditorR headers are all on one
\* line that starts with "X-ExtEditorR:", whatever their number
C13_Original ==
    (pc = "written" /\ request.configuration.meta_headers) =>
        /\ Len(CompactLines) = 1
        /\ HeadersOn(CompactLines[1]) = Len(ReservedToWrite)
        /\ \A j \in 1..Len(ReservedToWrite) :
              contains(CompactLines[1], <<" ">> \o ReservedToWrite[j] \o <<":">>)

\* C13 amended: in compact mode the X-ExtEditorR headers are written two to
\* a line, in the order of to_eml, each line starting with "X-ExtEditorR:"
\* and its two headers joined by ", " after the padding that aligns the
\* columns; n headers take (n + 1) / 2 lines, the last one holding a single
\* header when n is odd, and no header is written with the long prefix
C13_TwoPerLine ==
    LET names == ReservedToWrite
        lines == CompactLines
    IN  (pc = "written" /\ request.configuration.meta_headers) =>
            /\ Len(lines) = (Len(names) + 1) \div 2
            /\ \A i \in 1..Len(lines) : HoldsPair(lines[i], names, 2 * i - 1)
            /\ \A i \in 1..Len(FileLines) :
                  ~starts_with(FileLines[i], HEADER_META \o <<"-">>)

\* a delivery format and send-on-exit: three headers on two lines, the
\* delivery format on the first and send-on-exit on the second
C13_Witness ==
    /\ pc = "written"
    /\ request.configuration.meta_headers
    /\ request.configuration.send_on_exit
    /\ ReservedToWrite = <<<<"D","e","l","i","v","e","r","y","-","F","o","r","m","a","t">>, <<"A","l","l","o","w","-","X","-","H","e","a","d","e","r","s">>, <<"S","e","n","d","-","O","n","-","E","x","i","t">>>>
    /\ Len(CompactLines) = 2
    /\ HoldsCompactHeader(CompactLines[1], <<"D","e","l","i","v","e","r","y","-","F","o","r","m","a","t">>, <<"[","p","l","a","i","n","t","e","x","t","]">>)
    /\ HoldsCompactHeader(CompactLines[2], <<"S","e","n","d","-","O","n","-","E","x","i","t">>, <<"t","r","u","e">>)

----------------------------------------------------------------------------
(* Attach-vCard: to_eml writes the request, the editor leaves the file as it
   is or replaces its header block by at most MaxHeaderLines lines of
   VcardPool, and merge_from_eml reads the file.  Each line of the pool is
   given with the value it sets, if it sets one. *)

VcardLine(text, sets) == [text |-> text, sets |-> sets]

VcardPool ==
    {VcardLine(<<"X","-","E","x","t","E","d","i","t","o","r","R","-","A","t","t","a","c","h","-","v","C","a","r","d",":"," ","[","t","r","u","e","]">>, None),
     VcardLine(<<"X","-","E","x","t","E","d","i","t","o","r","R","-","A","t","t","a","c","h","-","v","C","a","r","d",":"," ","[","f","a","l","s","e","]">>, None),
     VcardLine(<<"X","-","E","x","t","E","d","i","t","o","r","R","-","A","t","t","a","c","h","-","v","C","a","r","d",":"," ","t","r","u","e">>, Some(TRUE)),
     VcardLine(<<"x","-","e","x","t","e","d","i","t","o","r","r","-","a","t","t","a","c","h","-","v","c","a","r","d",":"," "," "," ","f","a","l","s","e"," ">>, Some(FALSE)),
     VcardLine(<<"X","-","E","x","t","E","d","i","t","o","r","R",":"," ","A","t","t","a","c","h","-","v","C","a","r","d",":"," ","t","r","u","e",","," ","S","e","n","d","-","O","n","-","E","x","i","t",":"," ","f","a","l","s","e">>, Some(TRUE)),
     VcardLine(<<"X","-","E","x","t","E","d","i","t","o","r","R","-","A","t","t","a","c","h","-","v","C","a","r","d",":">>, None),
     VcardLine(<<"S","u","b","j","e","c","t",":"," ","s">>, None)}

\* the document of a sequence of lines, each given by its text: the lines,
\* an empty line, the body
LinesDocument(lines) ==
    Concat([i \in 1..Len(lines) |-> writeln_crlf(lines[i].text)])
    \o CRLF \o <<"h","e","l","l","o">>

VcardDocuments == {LinesDocument(lines) : lines \in SeqsUpTo(VcardPool, MaxHeaderLines)}

\* the requests: no value, true or false, untouched as deserialised
VcardRequests ==
    {[get_blank_compose EXCEPT
         !.configuration.meta_headers = m,
         !.configuration.suppress_help_headers = TRUE,
         !.compose_details.attach_vcard = a] :
        m \in BOOLEAN, a \in AttachVcardPlans}

InitVcard ==
    /\ request \in VcardRequests
    /\ file = <<>>
    /\ max_body_length = MAX_BODY_LENGTH
    /\ result = NoResult
    /\ pc = "request"
    /\ CodecOnly

\* the editor replaces the file by one of documents
Edit(documents) ==
    /\ pc = "written"
    /\ file' \in documents
    /\ pc' = "edited"
    /\ UNCHANGED <<request, max_body_length, result>>
    /\ UNCHANGED host

EditVcard == Edit(VcardDocuments)

NextVcard == ToEml \/ EditVcard \/ MergeFromEml

SpecVcard == InitVcard /\ [][NextVcard]_vars

\* the lines of the header block of a document, as lines of pool
RECURSIVE PoolLinesFrom(_, _, _)
PoolLinesFrom(pool, texts, i) ==
    IF i > Len(texts) \/ texts[i] = <<"\r">> THEN <<>>
    ELSE <<CHOOSE l \in pool : l.text \o <<"\r">> = texts[i]>>
         \o PoolLinesFrom(pool, texts, i + 1)

\* the values the Attach-vCard headers of the file set, in document order:
\* none in the file as to_eml wrote it
VcardSets(unedited) ==
    IF unedited THEN <<>>
    ELSE SelectSeq([k \in 1..Len(PoolLinesFrom(VcardPool, split(file, "\n"), 1)) |->
                       PoolLinesFrom(VcardPool, split(file, "\n"), 1)[k].sets],
                   IsSome)

\* what the responses hold after the values sets, in this order
VcardAfter(sets) ==
    IF sets = <<>> THEN request.compose_details.attach_vcard
    ELSE [inner |-> sets[Len(sets)], changed |-> TRUE]

\* C11: to_eml writes the attachVCard value in brackets; the responses hold
\* the touched flag exactly when a header of the document gives an
\* unbracketed true or false, and then the last such value; a bracketed
\* value changes neither the value nor the flag
C11_TouchedFlag ==
    /\ pc = "written" =>
          LET a == request.compose_details.attach_vcard.inner
          IN  /\ a = Some(TRUE) => Emitted(FileLines, <<"A","t","t","a","c","h","-","v","C","a","r","d">>, <<"[","t","r","u","e","]">>)
              /\ a = Some(FALSE) => Emitted(FileLines, <<"A","t","t","a","c","h","-","v","C","a","r","d">>, <<"[","f","a","l","s","e","]">>)
              /\ a = None => ~EmitsName(FileLines, <<"A","t","t","a","c","h","-","v","C","a","r","d">>)
    /\ pc = "merged" =>
          /\ result.ok
          /\ \A i \in 1..Len(Responses) :
                Responses[i].compose_details.attach_vcard
                    = VcardAfter(VcardSets(file = to_eml(request)))

\* the request holds false; the document gives false unbracketed, then
\* [true]: the flag is set and stays set, the value is false
C11_Witness ==
    /\ Merged
    /\ request.compose_details.attach_vcard = TrackedOptionBool_new(FALSE)
    /\ file = LinesDocument(<<VcardLine(<<"x","-","e","x","t","e","d","i","t","o","r","r","-","a","t","t","a","c","h","-","v","c","a","r","d",":"," "," "," ","f","a","l","s","e"," ">>, Some(FALSE)),
                              VcardLine(<<"X","-","E","x","t","E","d","i","t","o","r","R","-","A","t","t","a","c","h","-","v","C","a","r","d",":"," ","[","t","r","u","e","]">>, None)>>)
    /\ Responses[1].compose_details.attach_vcard = [inner |-> Some(FALSE), changed |-> TRUE]

----------------------------------------------------------------------------
(* The compact X-ExtEditorR line: merge_from_eml reads a document whose
   header block is one compact line of at most MaxPairs pairs of CompactPool
   followed by a custom header.  A pair is written as lead spaces, the name,
   trail spaces, a colon, and the value with its own padding. *)

MaxPairs == 2

CompactPair(lead, name, trail, value) ==
    [lead |-> lead, name |-> name, trail |-> trail, value |-> value]

CompactPool ==
    {CompactPair(0, <<"S","e","n","d","-","O","n","-","E","x","i","t">>, 0, <<" ","t","r","u","e">>),
     CompactPair(1, <<"A","l","l","o","w","-","X","-","H","e","a","d","e","r","s">>, 0, <<" "," "," ","t","r","u","e"," "," ">>),
     CompactPair(0, <<"F","o","o">>, 0, <<" ","b","a","r">>),
     CompactPair(1, <<"X","-","B","a","r">>, 2, <<" ","w","o","r","l","d">>),
     CompactPair(1, <<"X","-","E","x","t","E","d","i","t","o","r","R","-","B","a","z">>, 1, <<" ","q","u","x"," ">>),
     CompactPair(0, <<"D","e","l","i","v","e","r","y","-","F","o","r","m","a","t">>, 3, <<" "," "," "," ","p","l","a","i","n","t","e","x","t">>),
     CompactPair(0, <<"P","r","i","o","r","i","t","y">>, 0, <<" ","b","o","g","u","s">>),
     CompactPair(0, <<"A","t","t","a","c","h","-","v","C","a","r","d">>, 0, <<" ","[","f","a","l","s","e","]">>),
     CompactPair(0, <<"X","-","H","e","a","d","e","r">>, 0, <<" ","X","-","A",":"," ","b">>)}

\* the names of the pool that no arm of process_header recognises once the
\* reserved prefix is attached
UnknownSubNames == {<<"F","o","o">>, <<"X","-","B","a","r">>}

CompactPlans == SeqsUpTo(CompactPool, MaxPairs) \ {<<>>}

\* a pair as it stands in the compact line
CompactText(p) ==
    Spaces(p.lead) \o p.name \o Spaces(p.trail) \o <<":">> \o p.value

CompactLine(plan) ==
    HEADER_META \o <<":">>
    \o join([i \in 1..Len(plan) |-> CompactText(plan[i])], <<",">>)

\* a pair as a line of its own: the name as written up to the colon, without
\* the padding in front of it
SeparateLine(p) ==
    HEADER_META \o <<"-">> \o p.name \o Spaces(p.trail) \o <<":">> \o p.value

\* a pair as a line of its own, with the bare name
BareSeparateLine(p) ==
    HEADER_META \o <<"-">> \o p.name \o <<":">> \o p.value

CompactTail == [text |-> <<"X","-","F","o","o",":"," ","b","a","r">>]

CompactDocument(plan) ==
    LinesDocument(<<[text |-> CompactLine(plan)], CompactTail>>)

SeparateDocument(plan) ==
    LinesDocument([i \in 1..Len(plan) |-> [text |-> SeparateLine(plan[i])]]
                  \o <<CompactTail>>)

BareSeparateDocument(plan) ==
    LinesDocument([i \in 1..Len(plan) |-> [text |-> BareSeparateLine(plan[i])]]
                  \o <<CompactTail>>)

CompactDocuments == [plan \in CompactPlans |-> CompactDocument(plan)]

CompactRequests ==
    {[get_blank_compose EXCEPT
         !.configuration.allow_custom_headers = a,
         !.configuration.send_on_exit = s] :
        a \in BOOLEAN, s \in BOOLEAN}

InitCompact ==
    /\ request \in CompactRequests
    /\ file \in {CompactDocuments[plan] : plan \in CompactPlans}
    /\ max_body_length = MAX_BODY_LENGTH
    /\ result = NoResult
    /\ pc = "edited"
    /\ CodecOnly

NextCompact == MergeFromEml

SpecCompact == InitCompact /\ [][NextCompact]_vars

\* the plan of the compact line of a document
PlanOf(f) == CHOOSE plan \in CompactPlans : CompactDocuments[plan] = f

\* the names of the unknown pairs of a plan, in the form they are reported
ReportedUnknown(plan) ==
    {HEADER_META \o <<"-">> \o plan[i].name \o Spaces(plan[i].trail) :
        i \in {k \in 1..Len(plan) : plan[k].name \in UnknownSubNames}}

\* every name of names is listed in the last warning of response, and no
\* custom header of response carries it or its sub-name
ReportedNotStored(response, plan) ==
    \A i \in 1..Len(plan) :
        plan[i].name \in UnknownSubNames =>
            /\ response.warnings # <<>>
            /\ contains(response.warnings[Len(response.warnings)].message \o <<"\n">>,
                        <<"-"," ","X","-","E","x","t","E","d","i","t","o","r","R","-">> \o plan[i].name \o Spaces(plan[i].trail)
                            \o <<"\n">>)
            /\ \A k \in 1..Len(response.compose_details.custom_headers) :
                  response.compose_details.custom_headers[k].name
                      \notin {plan[i].name, HEADER_META \o <<"-">> \o plan[i].name}

CompactAs(plan, document) ==
    /\ result = merge_from_eml(request, document, max_body_length)
    /\ result.ok => \A i \in 1..Len(Responses) : ReportedNotStored(Responses[i], plan)

\* C14 as stated: the compact line, whatever its padding, is read as the
\* separate lines X-ExtEditorR-<name>: <value> with the bare names are
C14_Original ==
    pc = "merged" => CompactAs(PlanOf(file), BareSeparateDocument(PlanOf(file)))

\* C14: the compact line is read as the separate lines are, each pair
\* becoming X-ExtEditorR-<name>: <value> where the name is the text of the
\* pair up to its colon without the padding in front of it (padding between
\* a name and its colon stays in the line): the same result, the same
\* warnings; an unknown sub-name is reported as X-ExtEditorR-<name> and is
\* not stored as a custom header
C14_CompactAsSeparate ==
    pc = "merged" => CompactAs(PlanOf(file), SeparateDocument(PlanOf(file)))

\* the line of the test: custom headers allowed by the first pair, Foo and
\* X-Bar reported, X-Foo of the next line stored
C14_Witness ==
    /\ Merged
    /\ ~request.configuration.allow_custom_headers
    /\ file = CompactDocument(<<CompactPair(1, <<"A","l","l","o","w","-","X","-","H","e","a","d","e","r","s">>, 0, <<" "," "," ","t","r","u","e"," "," ">>),
                                CompactPair(0, <<"F","o","o">>, 0, <<" ","b","a","r">>)>>)
    /\ Responses[1].configuration.allow_custom_headers
    /\ Len(Responses[1].compose_details.custom_headers) = 1
    /\ Responses[1].compose_details.custom_headers[1].name = <<"X","-","F","o","o">>
    /\ Len(Responses[1].warnings) = 1
    /\ contains(Responses[1].warnings[1].message, <<"-"," ","X","-","E","x","t","E","d","i","t","o","r","R","-","F","o","o">>)
----------------------------------------------------------------------------
(* Headers, then body: merge_from_eml reads documents of a header block, a
   line that is empty once trimmed, and at most MaxBodyLines body lines of
   BodyLinePool, lines that would be headers if they were read as such. *)

MaxBodyLines == 2

BodyLinePool ==
    {<<"B","c","c",":"," ","b","\r","\n">>,
     <<"T","o",":"," ","x","\r","\n">>,
     <<"F","o","o",":"," ","b","\r","\n">>,
     <<"T","o",":"," ","{","\r","\n">>,
     <<"\r","\n">>}

HeaderBlocks ==
    {<<>>,
     <<"S","u","b","j","e","c","t",":"," ","s","\r","\n","C","c",":"," ","c","@","e","x","a","m","p","l","e",".","c","o","m","\r","\n">>,
     <<"X","-","E","x","t","E","d","i","t","o","r","R","-","S","e","n","d","-","O","n","-","E","x","i","t",":"," ","t","r","u","e","\r","\n","B","a","r",":"," ","b","a","z","\r","\n">>}

\* the lines that end the header block
BlankLines == {<<"\r","\n">>, <<" ", "\t", "\r", "\n">>}

BodyPlan(headers, blank, lines) == [headers |-> headers, blank |-> blank, lines |-> lines]

BodyPlansOf ==
    {BodyPlan(h, b, l) : h \in HeaderBlocks, b \in BlankLines,
                         l \in SeqsUpTo(BodyLinePool, MaxBodyLines)}

BodyText(plan) == Concat(plan.lines)

BodyDocument(plan) == plan.headers \o plan.blank \o BodyText(plan)

BodyDocuments == [plan \in BodyPlansOf |-> BodyDocument(plan)]

BodyRequests ==
    {[get_blank_compose EXCEPT
         !.compose_details.is_plain_text = p,
         !.compose_details.to = Multiple(<<Email(<<"o","l","d","@","e","x","a","m","p","l","e",".","c","o","m">>)>>),
         !.configuration.send_on_exit = TRUE] :
        p \in BOOLEAN}

InitBody ==
    /\ request \in BodyRequests
    /\ file \in {BodyDocuments[plan] : plan \in BodyPlansOf}
    /\ max_body_length \in {MAX_BODY_LENGTH, MaxBound}
    /\ result = NoResult
    /\ pc = "edited"
    /\ CodecOnly

NextBody == MergeFromEml

SpecBody == InitBody /\ [][NextBody]_vars

\* a plan of the document (two plans of one document differ only in where
\* an empty first body line is counted, and have the same header block)
BodyPlanOf(f) == CHOOSE plan \in BodyPlansOf : BodyDocuments[plan] = f

\* a response without its bodies and its place among the responses
Unbodied(response) ==
    [response EXCEPT !.compose_details.body = <<>>,
                     !.compose_details.plain_text_body = <<>>,
                     !.configuration.sequence = 0,
                     !.configuration.total = 0]

\* what the header block alone gives
HeadersOnly(plan) ==
    merge_from_eml(request, plan.headers \o plan.blank, max_body_length)

BodyNotReadAsHeaders(plan, headers_only) ==
    /\ headers_only.ok /\ Len(headers_only.responses) = 1
    /\ result.ok
    /\ \A i \in 1..Len(Responses) :
          Unbodied(Responses[i]) = Unbodied(headers_only.responses[1])
    /\ Concat(ChunkBodies) = BodyText(plan)

\* C15: once a line that is empty when trimmed has been read, no later line
\* is read as a header: every response has the fields and warnings that the
\* header block alone gives, and the bodies of the responses, in order, are
\* the text after that line, unchanged
C15_NoReentry ==
    pc = "merged" => BodyNotReadAsHeaders(BodyPlanOf(file), HeadersOnly(BodyPlanOf(file)))

\* the body holds a Bcc line and a To line; the response has neither, no
\* warning, and the two lines as its body
C15_Witness ==
    /\ Merged
    /\ request.configuration.send_on_exit
    /\ file = <<"S","u","b","j","e","c","t",":"," ","s","\r","\n","C","c",":"," ","c","@","e","x","a","m","p","l","e",".","c","o","m","\r","\n">> \o <<" ", "\t", "\r", "\n">>
              \o <<"B","c","c",":"," ","b","\r","\n","T","o",":"," ","x","\r","\n">>
    /\ Len(Responses) = 1
    /\ Responses[1].compose_details.bcc = Multiple(<<>>)
    /\ Responses[1].compose_details.to = Multiple(<<>>)
    /\ Responses[1].warnings = <<>>
    /\ AuthoritativeBody(Responses[1].compose_details)
           = <<"B","c","c",":"," ","b","\r","\n","T","o",":"," ","x","\r","\n">>
----------------------------------------------------------------------------
(* util.rs and main.rs: the version check, handle_ping, handle_compose and
   handle_eml.  One request is read and handled by its worker; every step
   that touches the disk, the editor or the transport is an action, with the
   outcomes the operating system can give. *)

\* a variant that compares the first two segments of versions of any length
is_extension_compatible_AnyLength(host_v, extension_v) ==
    /\ Len(split(host_v, ".")) >= 2
    /\ Len(split(extension_v, ".")) >= 2
    /\ split(host_v, ".")[1] = split(extension_v, ".")[1]
    /\ split(host_v, ".")[2] = split(extension_v, ".")[2]

\* util.rs: is_extension_compatible
is_extension_compatible(host_v, extension_v) ==
    /\ Len(split(host_v, ".")) = 3
    /\ Len(split(extension_v, ".")) = 3
    /\ split(host_v, ".")[1] = split(extension_v, ".")[1]
    /\ split(host_v, ".")[2] = split(extension_v, ".")[2]

\* a variant that leaves pong as it was received
PingResponse_PongAsReceived(p, host_v) ==
    [p EXCEPT !.host_version = host_v,
              !.compatible = is_extension_compatible(host_v, p.version)]

\* handle_ping: the Ping written for the Ping p
PingResponse(p, host_v) ==
    [p EXCEPT !.pong = p.ping,
              !.host_version = host_v,
              !.compatible = is_extension_compatible(host_v, p.version)]

\* a variant of the version check that ignores bypass_version_check
VersionCheckPasses_NoBypass(host_v, configuration) ==
    is_extension_compatible(host_v, configuration.version)

\* handle_eml: whether the request gets past the version check
VersionCheckPasses(host_v, configuration) ==
    \/ is_extension_compatible(host_v, configuration.version)
    \/ configuration.bypass_version_check

\* the titles of the Errors of handle_eml
TITLE_MISMATCH == "ExtEditorR version mismatch!"
TITLE_CREATE == "ExtEditorR failed to create temporary file"
TITLE_WRITE == "ExtEditorR failed to write to temporary file"
TITLE_START == "ExtEditorR failed to start editor"
TITLE_EDITOR == "ExtEditorR encountered error from external editor"
TITLE_READ == "ExtEditorR failed to read from temporary file"
TITLE_PROCESS == "ExtEditorR failed to process temporary file"

\* a variant that leaves the tab of the error at its default
messaging_Error_NoTab(tab, reset, title) ==
    [tab |-> [id |-> 0], reset |-> reset, title |-> title]

\* messaging::Error as handle_eml builds it (the message text, which names
\* the cause and the path of the temporary file, is left out)
messaging_Error(tab, reset, title) ==
    [tab |-> tab, reset |-> reset, title |-> title]

\* a variant that hands out the responses from the last to the first
NextResponse_FromLast(responses, n) == responses[Len(responses) - n]

\* handle_eml: the response the loop over responses hands to write_message
\* after n of them
NextResponse(responses, n) == responses[n + 1]

\* a variant that leaves the loop when a write fails
ResponsesHandled_UntilErr(n, ok, responses) == IF ok THEN n + 1 ELSE Len(responses)

\* handle_eml: the responses the loop is past after the write of response
\* n + 1, whether the write returned Ok or not
ResponsesHandled(n, ok, responses) == n + 1

\* one call of Transport::write_message: what was written and whether the
\* call returned Ok
Written(kind, body, ok) == [kind |-> kind, body |-> body, ok |-> ok]

\* versions of builds: releases, and a pre-release with a dot
HostVersions == {<<"1",".","0",".","0">>, <<"1",".","1",".","3">>, <<"1",".","0",".","0","-","r","c",".","1">>}

\* versions an extension sends
ExtVersions ==
    HostVersions
    \cup {<<"1",".","0",".","1","-","b","e","t","a">>, <<"1",".","1",".","0">>, <<"1",".","0",".","0",".","0">>, <<"1",".","0">>, <<>>, <<"2",".","0",".","0">>, <<"0","1",".","0",".","0">>,
          <<"1",".","0",".","1","-","b","e","t","a",".","2">>}

\* Ping requests: pong, hostVersion and compatible absent (serde defaults) or
\* sent along
Pings ==
    {[ping |-> n, pong |-> g[1], version |-> v, host_version |-> g[2], compatible |-> g[3]] :
        n \in {0, 42}, v \in ExtVersions,
        g \in {<<0, <<>>, FALSE>>, <<7, <<"9",".","9",".","9">>, TRUE>>}}

\* the documents an editor leaves: a short body, a body of several chunks
\* under MaxBound, and a header that fails the parse
HostDocuments ==
    {<<"S","u","b","j","e","c","t",":"," ","s","\r","\n","\r","\n","h","i">>,
     <<"S","u","b","j","e","c","t",":"," ","s","\r","\n","\r","\n","a","b","c","d","e","f","g","h","i">>,
     <<"X","-","E","x","t","E","d","i","t","o","r","R","-","P","r","i","o","r","i","t","y",":"," ","b","o","g","u","s","\r","\n","\r","\n","h","i">>}

HostRequests ==
    {[get_blank_compose EXCEPT
         !.tab = [id |-> t],
         !.configuration.version = v,
         !.configuration.bypass_version_check = b,
         !.configuration.suppress_help_headers = TRUE] :
        t \in {3, 7}, v \in ExtVersions, b \in BOOLEAN}

\* the request main has read, before its worker starts.  handle_eml always
\* hands MAX_BODY_LENGTH to merge_from_eml; MaxBound stands for it where the
\* bodies of HostDocuments stand for bodies longer than MAX_BODY_LENGTH.
InitHost ==
    /\ host_version \in HostVersions
    /\ \/ ping \in {Some(p) : p \in Pings} /\ request = get_blank_compose
       \/ ping = None /\ request \in HostRequests
    /\ max_body_length \in IF ping = None THEN {MAX_BODY_LENGTH, MaxBound}
                           ELSE {MAX_BODY_LENGTH}
    /\ file = <<>>
    /\ result = NoResult
    /\ pc = "request"
    /\ disk = FALSE
    /\ error = None
    /\ sent = 0
    /\ messages = <<>>
    /\ remove_file = "not called"
    /\ NoProcess

\* handle_ping
HandlePing ==
    /\ pc = "request" /\ IsSome(ping)
    /\ \E ok \in BOOLEAN :
          messages' = Append(messages, Written("ping", PingResponse(Unwrap(ping), host_version), ok))
    /\ pc' = "done"
    /\ UNCHANGED <<request, file, max_body_length, result, host_version, disk, error, sent, ping, remove_file, process>>

\* handle_eml returns Err(e)
ReturnErr(e) ==
    /\ error' = Some(e)
    /\ pc' = "failed"

\* handle_eml: the version check
CheckVersion ==
    /\ pc = "request" /\ ping = None
    /\ IF VersionCheckPasses(host_version, request.configuration)
       THEN pc' = "checked" /\ error' = error
       ELSE ReturnErr(messaging_Error(request.tab, FALSE, TITLE_MISMATCH))
    /\ UNCHANGED <<request, file, max_body_length, result, host_version, disk, sent, messages,
                   ping, remove_file, process>>

\* handle_eml: fs::File::create(temp_filename)
CreateTempFile ==
    /\ pc = "checked"
    /\ \/ /\ disk' = TRUE /\ file' = <<>>
          /\ pc' = "created" /\ error' = error
       \/ /\ UNCHANGED <<disk, file>>
          /\ ReturnErr(messaging_Error(request.tab, TRUE, TITLE_CREATE))
    /\ UNCHANGED <<request, max_body_length, result, host_version, sent, messages, ping, remove_file, process>>

\* handle_eml: request.to_eml(&mut temp_file); a write that fails leaves a
\* part of the document in the file
WriteTempFile ==
    /\ pc = "created"
    /\ \/ /\ file' = to_eml(request)
          /\ pc' = "written" /\ error' = error
       \/ /\ \E n \in {0, Len(to_eml(request)) \div 2} : file' = SubSeq(to_eml(request), 1, n)
          /\ ReturnErr(messaging_Error(request.tab, TRUE, TITLE_WRITE))
    /\ UNCHANGED <<request, max_body_length, result, host_version, disk, sent, messages, ping, remove_file, process>>

\* handle_eml: process::Command::output() and the exit status.  An editor
\* that has started leaves the file as it is or rewrites it.
RunEditor ==
    /\ pc = "written"
    /\ \/ /\ file' = file
          /\ ReturnErr(messaging_Error(request.tab, TRUE, TITLE_START))
       \/ /\ file' \in {file} \cup HostDocuments
          /\ \/ ReturnErr(messaging_Error(request.tab, FALSE,
                                     TITLE_EDITOR))
             \/ pc' = "edited" /\ error' = error
    /\ UNCHANGED <<request, max_body_length, result, host_version, disk, sent, messages, ping, remove_file, process>>

\* handle_eml: fs::File::open(temp_filename) and merge_from_eml
ReadTempFile ==
    /\ pc = "edited"
    /\ \/ /\ result' = result
          /\ ReturnErr(messaging_Error(request.tab, FALSE,
                                  TITLE_READ))
       \/ /\ result' = merge_from_eml(request, file, max_body_length)
          /\ IF result'.ok THEN pc' = "merged" /\ error' = error
             ELSE ReturnErr(messaging_Error(request.tab, FALSE,
                                       TITLE_PROCESS))
    /\ UNCHANGED <<request, file, max_body_length, host_version, disk, sent, messages, ping, remove_file, process>>

\* handle_eml: one turn of the loop over responses
WriteResponse ==
    /\ pc = "merged" /\ sent < Len(Responses)
    /\ \E ok \in BOOLEAN :
          /\ messages' = Append(messages, Written("compose", NextResponse(Responses, sent), ok))
          /\ sent' = ResponsesHandled(sent, ok, Responses)
    /\ UNCHANGED <<request, file, max_body_length, result, pc, host_version, disk, error, ping, remove_file, process>>

\* handle_compose: handle_eml has returned Ok(()); fs::remove_file
RemoveTempFile ==
    /\ pc = "merged" /\ sent = Len(Responses)
    /\ \/ disk' = FALSE /\ remove_file' = "ok"
       \/ disk' = disk /\ remove_file' = "err"
    /\ pc' = "done"
    /\ UNCHANGED <<request, file, max_body_length, result, host_version, error, sent, messages,
                   ping, process>>

\* handle_compose: handle_eml has returned Err(e); write_message(&e)
WriteError ==
    /\ pc = "failed"
    /\ \E ok \in BOOLEAN :
          messages' = Append(messages, Written("error", Unwrap(error), ok))
    /\ pc' = "done"
    /\ UNCHANGED <<request, file, max_body_length, result, host_version, disk, error, sent, ping, remove_file, process>>

NextHost ==
    \/ HandlePing
    \/ CheckVersion
    \/ CreateTempFile
    \/ WriteTempFile
    \/ RunEditor
    \/ ReadTempFile
    \/ WriteResponse
    \/ RemoveTempFile
    \/ WriteError

SpecHost == InitHost /\ [][NextHost]_vars
----------------------------------------------------------------------------
(* The version check and the answer to a Ping. *)

\* the positions of the dots of a version
Dots(v) == {i \in 1..Len(v) : v[i] = "."}

\* the text of a version up to its second dot: major.minor
MajorMinor(v) ==
    SubSeq(v, 1, (CHOOSE i \in Dots(v) : Cardinality({j \in Dots(v) : j < i}) = 1) - 1)

\* major.minor.patch, with nothing after the patch or a pre-release part
\* that starts with a hyphen: every dot after the second follows a hyphen
IsRelease(v) ==
    /\ Cardinality(Dots(v)) >= 2
    /\ \A i \in Dots(v) :
          Cardinality({j \in Dots(v) : j < i}) >= 2 => \E k \in 1..(i - 1) : v[k] = "-"

\* the answers to the Ping of the exchange
PingAnswers == SelectSeq(messages, LAMBDA m : m.kind = "ping")

\* whether the version check has refused the request of the exchange
Refused ==
    /\ IsSome(error)
    /\ Unwrap(error).title = TITLE_MISMATCH

\* the version of the extension in the exchange, and what the host made of it
ExtensionVersion ==
    IF IsSome(ping) THEN Unwrap(ping).version ELSE request.configuration.version

Decided ==
    \/ IsSome(ping) /\ pc = "done"
    \/ ping = None /\ pc # "request" /\ ~request.configuration.bypass_version_check

FoundCompatible ==
    IF IsSome(ping) THEN PingAnswers[1].body.compatible ELSE ~Refused

\* C16 as stated: versions that agree on major.minor are compatible whatever
\* follows the minor segment, and a version without exactly three
\* dot-separated segments is incompatible
C16_Original ==
    Decided =>
        /\ (/\ IsRelease(host_version) /\ IsRelease(ExtensionVersion)
            /\ MajorMinor(host_version) = MajorMinor(ExtensionVersion))
               => FoundCompatible
        /\ (Cardinality(Dots(host_version)) # 2 \/ Cardinality(Dots(ExtensionVersion)) # 2)
               => ~FoundCompatible

\* C16: the versions are compatible exactly when each has two dots, that is
\* three dot-separated segments, and the text up to the second dot is the
\* same in both; the third segment is ignored, and a version with a dot
\* after its patch number is incompatible like any other version that has
\* not three segments
C16_ThreeSegments ==
    Decided =>
        (FoundCompatible <=>
            /\ Cardinality(Dots(host_version)) = 2
            /\ Cardinality(Dots(ExtensionVersion)) = 2
            /\ MajorMinor(host_version) = MajorMinor(ExtensionVersion))

\* host 1.0.0, extension 1.0.1-beta: compatible
C16_Witness ==
    /\ IsSome(ping) /\ pc = "done"
    /\ host_version = <<"1",".","0",".","0">>
    /\ Unwrap(ping).version = <<"1",".","0",".","1","-","b","e","t","a">>
    /\ messages[1].body.compatible

\* C17: handle_ping writes one Ping and nothing else: pong is the ping of
\* the request, ping and version are those of the request, hostVersion is
\* the version of the host, compatible is is_extension_compatible of the
\* host version and the version of the request, and false for a request
\* without a version
C17_PingAnswer ==
    IsSome(ping) =>
        /\ pc = "request" => messages = <<>>
        /\ pc # "request" =>
              /\ pc = "done"
              /\ Len(messages) = 1
              /\ messages[1].kind = "ping"
              /\ messages[1].body.pong = Unwrap(ping).ping
              /\ messages[1].body.ping = Unwrap(ping).ping
              /\ messages[1].body.version = Unwrap(ping).version
              /\ messages[1].body.host_version = host_version
              /\ messages[1].body.compatible
                     = is_extension_compatible(host_version, Unwrap(ping).version)
              /\ Unwrap(ping).version = <<>> => ~messages[1].body.compatible

\* a Ping without a version that came with pong 7 and compatible true is
\* answered with its own ping as pong and compatible false
C17_Witness ==
    /\ IsSome(ping) /\ pc = "done"
    /\ Unwrap(ping) = [ping |-> 42, pong |-> 7, version |-> <<>>,
                       host_version |-> <<"9",".","9",".","9">>, compatible |-> TRUE]
    /\ messages[1].ok
    /\ messages[1].body.pong = 42
    /\ ~messages[1].body.compatible
    /\ messages[1].body.host_version = host_version
----------------------------------------------------------------------------
(* handle_compose: the version check, the errors, and the messages written
   for one Compose request. *)

Incompatible ==
    /\ ping = None
    /\ ~is_extension_compatible(host_version, request.configuration.version)

\* the request with the version of the host: a compatible request when the
\* version of the host has three segments
CompatibleTwin == [request EXCEPT !.configuration.version = host_version]

\* a response to the twin, with the version of the request
AsRequested(response) ==
    [response EXCEPT !.configuration.version = request.configuration.version]


\* C18: a request of an incompatible version without bypassVersionCheck
\* gets no temporary file and no editor, and one Error with reset false and
\* its tab; with bypassVersionCheck it is never refused for its version,
\* and its file and its responses are those of the same request with a
\* compatible version
C18_VersionMismatch ==
    Incompatible =>
        /\ ~request.configuration.bypass_version_check =>
              /\ pc \in {"request", "failed", "done"}
              /\ disk = FALSE /\ file = <<>>
              /\ pc = "request" => error = None /\ messages = <<>>
              /\ pc = "failed" =>
                    /\ messages = <<>>
                    /\ error = Some([tab |-> request.tab, reset |-> FALSE,
                                     title |-> TITLE_MISMATCH])
              /\ pc = "done" =>
                    /\ Len(messages) = 1
                    /\ messages[1].kind = "error"
                    /\ messages[1].body.tab = request.tab
                    /\ ~messages[1].body.reset
        /\ request.configuration.bypass_version_check =>
              /\ ~Refused
              /\ pc = "written" => file = to_eml(CompatibleTwin)
              /\ pc = "merged" =>
                    Responses
                        = [i \in 1..Len(merge_from_eml(CompatibleTwin, file,
                                                       max_body_length).responses) |->
                              AsRequested(merge_from_eml(CompatibleTwin, file,
                                                         max_body_length).responses[i])]

\* host 1.0.0, extension 2.0.0, no bypass: one Error, nothing on disk
C18_Witness ==
    /\ ping = None /\ pc = "done"
    /\ host_version = <<"1",".","0",".","0">>
    /\ request.configuration.version = <<"2",".","0",".","0">>
    /\ ~request.configuration.bypass_version_check
    /\ messages = <<Written("error", [tab |-> request.tab, reset |-> FALSE,
                                      title |-> TITLE_MISMATCH], TRUE)>>
    /\ ~disk

\* the Errors of the exchange: the one handle_eml returned and those written
Errors ==
    {Unwrap(error) : e \in {error} \ {None}}
    \cup {messages[i].body : i \in {k \in 1..Len(messages) : messages[k].kind = "error"}}

\* the failures that follow the invocation of the editor
AfterEditor == {TITLE_EDITOR, TITLE_READ, TITLE_PROCESS}

ErrorsAsCaused(reset_true, reset_false) ==
    \A e \in Errors :
        /\ e.tab = request.tab
        /\ e.title \in reset_true \cup reset_false
        /\ e.reset = (e.title \in reset_true)
        /\ e.title = TITLE_CREATE => ~disk
        /\ e.title = TITLE_PROCESS => ~merge_from_eml(request, file, max_body_length).ok
        /\ (~e.reset /\ e.title \in AfterEditor) => disk

C20_ChunksOrError ==
    (ping = None /\ \A i \in 1..Len(messages) : messages[i].ok) =>
        /\ \/ /\ \A i \in 1..Len(messages) : messages[i].kind = "compose"
              /\ Len(messages) = sent
              /\ \A i \in 1..Len(messages) :
                    /\ messages[i].body = Responses[i]
                    /\ messages[i].body.configuration.sequence = i - 1
                    /\ messages[i].body.configuration.total = Len(Responses)
           \/ /\ Len(messages) = 1
              /\ messages[1].kind = "error"
              /\ pc = "done"
        /\ pc = "done" =>
              /\ messages # <<>>
              /\ messages[1].kind = "compose" =>
                    Len(messages) = messages[1].body.configuration.total

\* three responses written in order, the file removed
C20_Witness ==
    /\ ping = None /\ pc = "done"
    /\ Len(messages) = 3
    /\ \A i \in 1..3 :
          /\ messages[i].ok
          /\ messages[i].kind = "compose"
          /\ messages[i].body.configuration.sequence = i - 1
    /\ AuthoritativeBody(messages[3].body.compose_details) = <<"i">>
    /\ ~disk
----------------------------------------------------------------------------
(* Edited documents given line by line: merge_from_eml reads a document of
   at most MaxLines header lines of a pool, a blank line and a body.  Each
   pool of lines comes with what its lines are expected to do. *)

MaxLines == 2

\* the edited file, before handle_eml reads it
InitEdited(requests, documents) ==
    /\ request \in requests
    /\ file \in documents
    /\ max_body_length = MAX_BODY_LENGTH
    /\ result = NoResult
    /\ pc = "edited"
    /\ CodecOnly

\* the documents of the plans of a pool, and the plan of a document
DocumentsOf(pool) == [lines \in SeqsUpTo(pool, MaxLines) |-> LinesDocument(lines)]
Range(f) == {f[x] : x \in DOMAIN f}
PlanFor(index, f) == CHOOSE lines \in DOMAIN index : index[lines] = f

----------------------------------------------------------------------------
(* Malformed values. *)

\* a line, the kind of its header, and whether its value is malformed
MalformedLine(text, kind, malformed) == [text |-> text, kind |-> kind, malformed |-> malformed]

MalformedPool ==
    {MalformedLine(<<"X","-","E","x","t","E","d","i","t","o","r","R","-","P","r","i","o","r","i","t","y",":"," ","b","o","g","u","s">>, "optional", TRUE),
     MalformedLine(<<"X","-","E","x","t","E","d","i","t","o","r","R","-","D","e","l","i","v","e","r","y","-","F","o","r","m","a","t",":"," ","b","o","g","u","s">>, "optional", TRUE),
     MalformedLine(<<"X","-","E","x","t","E","d","i","t","o","r","R","-","A","t","t","a","c","h","-","v","C","a","r","d",":"," ","y","e","s">>, "optional", TRUE),
     MalformedLine(<<"X","-","E","x","t","E","d","i","t","o","r","R","-","D","S","N",":"," ","y","e","s">>, "other", TRUE),
     MalformedLine(<<"X","-","E","x","t","E","d","i","t","o","r","R","-","R","e","t","u","r","n","-","R","e","c","e","i","p","t",":"," ","1">>, "other", TRUE),
     MalformedLine(<<"X","-","E","x","t","E","d","i","t","o","r","R","-","A","l","l","o","w","-","X","-","H","e","a","d","e","r","s",":"," ","T","r","u","e">>, "other", TRUE),
     MalformedLine(<<"T","o",":"," ","{","n","o","t"," ","j","s","o","n">>, "other", TRUE),
     MalformedLine(<<"X","-","E","x","t","E","d","i","t","o","r","R","-","C","u","s","t","o","m","-","H","e","a","d","e","r",":"," ","n","o"," ","c","o","l","o","n">>, "other", TRUE),
     MalformedLine(<<"X","-","E","x","t","E","d","i","t","o","r","R","-","S","e","n","d","-","O","n","-","E","x","i","t",":"," ","m","a","y","b","e">>, "lenient", TRUE),
     MalformedLine(<<"F","o","o",":"," ","b","a","r">>, "unknown", FALSE),
     MalformedLine(<<"X","-","E","x","t","E","d","i","t","o","r","R","-","D","S","N",":"," ","t","r","u","e">>, "other", FALSE)}

MalformedDocuments == DocumentsOf(MalformedPool)

MalformedRequests ==
    {[get_blank_compose EXCEPT !.configuration.allow_custom_headers = a] : a \in BOOLEAN}

InitMalformed == InitEdited(MalformedRequests, Range(MalformedDocuments))

NextMalformed == MergeFromEml

SpecMalformed == InitMalformed /\ [][NextMalformed]_vars

\* whether a line of one of kinds has a malformed value
HasMalformed(lines, kinds) ==
    \E i \in 1..Len(lines) : lines[i].malformed /\ lines[i].kind \in kinds

FailsExactlyOn(lines, kinds) ==
    /\ result.ok = ~HasMalformed(lines, kinds)
    /\ ~result.ok => IsSome(result.err) /\ result.responses = <<>>
    /\ result.ok => /\ result.responses # <<>>
                    /\ \A i \in 1..Len(Responses) : Len(Responses[i].warnings) <= 1

\* C25 as stated: the parse fails exactly when a priority, delivery-format
\* or attach-vCard value is malformed
C25_Original ==
    pc = "merged" => FailsExactlyOn(PlanFor(MalformedDocuments, file), {"optional"})

\* C25: the parse fails, with an error and no responses, exactly when a
\* priority, delivery-format or attach-vCard value, a DSN, Return-Receipt
\* or Allow-X-Headers value, a recipient that starts with { or a
\* Custom-Header value is malformed; a Send-On-Exit value that is not true
\* and an unknown header leave the parse successful with at most a warning
C25_FailsOnMalformed ==
    pc = "merged" => FailsExactlyOn(PlanFor(MalformedDocuments, file), {"optional", "other"})

\* a DSN value that is not a boolean fails the parse
C25_Witness ==
    /\ pc = "merged"
    /\ file = LinesDocument(<<MalformedLine(<<"F","o","o",":"," ","b","a","r">>, "unknown", FALSE),
                              MalformedLine(<<"X","-","E","x","t","E","d","i","t","o","r","R","-","D","S","N",":"," ","y","e","s">>, "other", TRUE)>>)
    /\ ~result.ok
    /\ result.err = Some("bool")
    /\ result.responses = <<>>
----------------------------------------------------------------------------
(* Lines without information: an empty value, no colon. *)

\* a line and the line that is expected to do the same: none for a line
\* that is expected to do nothing
SkippedLine(text, as) == [text |-> text, as |-> as]

SkipPool ==
    {SkippedLine(<<"S","u","b","j","e","c","t",":">>, None),
     SkippedLine(<<"T", "o", ":", " ", " ", "\t">>, None),
     SkippedLine(<<"X","-","E","x","t","E","d","i","t","o","r","R","-","P","r","i","o","r","i","t","y",":"," ">>, None),
     SkippedLine(<<"X","-","E","x","t","E","d","i","t","o","r","R","-","S","e","n","d","-","O","n","-","E","x","i","t",":">>, None),
     SkippedLine(<<"X","-","F","o","o",":">>, None),
     SkippedLine(<<"F","o","o",":">>, None),
     SkippedLine(<<"n","o"," ","c","o","l","o","n"," ","h","e","r","e">>, None),
     SkippedLine(<<"X","-","E","x","t","E","d","i","t","o","r","R",":">>, None),
     SkippedLine(<<"X","-","E","x","t","E","d","i","t","o","r","R",":"," ","j","u","n","k",","," ","S","e","n","d","-","O","n","-","E","x","i","t",":"," ","t","r","u","e",","," ","F","o","o",":">>,
                 Some(<<"X","-","E","x","t","E","d","i","t","o","r","R",":"," ","S","e","n","d","-","O","n","-","E","x","i","t",":"," ","t","r","u","e">>)),
     SkippedLine(<<"S","u","b","j","e","c","t",":"," ","n","e","w">>, Some(<<"S","u","b","j","e","c","t",":"," ","n","e","w">>)),
     SkippedLine(<<"X","-","E","x","t","E","d","i","t","o","r","R","-","S","e","n","d","-","O","n","-","E","x","i","t",":"," ","t","r","u","e">>, Some(<<"X","-","E","x","t","E","d","i","t","o","r","R","-","S","e","n","d","-","O","n","-","E","x","i","t",":"," ","t","r","u","e">>)),
     SkippedLine(<<"B","a","r",":"," ","b","a","z">>, Some(<<"B","a","r",":"," ","b","a","z">>))}

SkipDocuments == DocumentsOf(SkipPool)

SkipRequests ==
    {[get_blank_compose EXCEPT
         !.configuration.allow_custom_headers = a,
         !.configuration.send_on_exit = TRUE,
         !.compose_details.subject = <<"o","l","d">>,
         !.compose_details.priority = Some("High"),
         !.compose_details.custom_headers = <<[name |-> <<"X","-","F","o","o">>, value |-> <<"o","l","d">>]>>] :
        a \in BOOLEAN}

InitSkip == InitEdited(SkipRequests, Range(SkipDocuments))

NextSkip == MergeFromEml

SpecSkip == InitSkip /\ [][NextSkip]_vars

\* the document without the lines that are expected to do nothing
Effective(lines) ==
    LinesDocument([i \in 1..Len(SelectSeq(lines, LAMBDA l : IsSome(l.as))) |->
                      [text |-> Unwrap(SelectSeq(lines, LAMBDA l : IsSome(l.as))[i].as)]])

\* C26: a header line whose value is empty once trimmed, a line without a
\* colon and a piece of a compact line without a colon or with an empty
\* value have no effect: the result, its fields, warnings, sendOnExit and
\* error, is that of the document without them
C26_SkippedLines ==
    pc = "merged" =>
        result = merge_from_eml(request, Effective(PlanFor(SkipDocuments, file)),
                                max_body_length)

\* Send-On-Exit: true followed by an unknown name with an empty value:
\* sendOnExit stays, nothing is reported, the subject is the old one
C26_Witness ==
    /\ Merged
    /\ file = LinesDocument(<<SkippedLine(<<"X","-","E","x","t","E","d","i","t","o","r","R","-","S","e","n","d","-","O","n","-","E","x","i","t",":"," ","t","r","u","e">>,
                                          Some(<<"X","-","E","x","t","E","d","i","t","o","r","R","-","S","e","n","d","-","O","n","-","E","x","i","t",":"," ","t","r","u","e">>)),
                              SkippedLine(<<"F","o","o",":">>, None)>>)
    /\ Responses[1].configuration.send_on_exit
    /\ Responses[1].warnings = <<>>
    /\ Responses[1].compose_details.subject = <<"o","l","d">>
----------------------------------------------------------------------------
(* The order of custom headers: to_eml writes a request with at most
   MaxCustomHeaders custom headers of CustomHeaderPool, in expanded and in
   compact mode, and merge_from_eml reads the file as written. *)

MaxCustomHeaders == 2

\* names that start with X-, values on one line, not empty, with no space
\* around them
CustomHeaderPool ==
    {[name |-> <<"X","-","F","o","o">>, value |-> <<"b","a","r">>],
     [name |-> <<"X","-","H","e","l","l","o">>, value |-> <<"b","a","r",","," ","X","-","H","e","l","l","o",":"," ","w","o","r","l","d">>],
     [name |-> <<"X","-","E","x","t","E","d","i","t","o","r","R","-","B","a","z">>, value |-> <<"q","u","x">>],
     [name |-> <<"X","-","E","x","t","e","d","i","t","o","r","r","-","F","o","o">>, value |-> <<"b","a","r",","," ","X","-","E","x","t","E","d","i","t","o","r","R",":"," ","w","o","r","l","d",","," ","P","r","i","o","r","i","t","y",":"," ","h","i","g","h">>],
     [name |-> <<"X","-","E","x","t","E","d","i","t","o","r","R","1">>, value |-> <<"a",":"," ","b">>]}

OrderRequests ==
    {[get_blank_compose EXCEPT
         !.configuration.meta_headers = m,
         !.configuration.allow_custom_headers = TRUE,
         !.configuration.suppress_help_headers = TRUE,
         !.compose_details.custom_headers = c] :
        m \in BOOLEAN, c \in SeqsUpTo(CustomHeaderPool, MaxCustomHeaders)}

\* the request, before handle_eml writes the temporary file
InitRequest(requests) ==
    /\ request \in requests
    /\ file = <<>>
    /\ max_body_length = MAX_BODY_LENGTH
    /\ result = NoResult
    /\ pc = "request"
    /\ CodecOnly

InitOrder == InitRequest(OrderRequests)

NextOrder == ToEml \/ MergeFromEml

SpecOrder == InitOrder /\ [][NextOrder]_vars

\* a custom header with X-Exteditorr in its name written X-ExtEditorR
Canonical(h) == [h EXCEPT !.name = replace(h.name, HEADER_NORMALISED_META, HEADER_META)]

CanonicalHeaders(hs) == [i \in 1..Len(hs) |-> Canonical(hs[i])]

\* a name that starts with X-ExtEditorR, in any case, with a value without
\* comma and colon
PlainReserved(h) ==
    /\ Len(h.name) >= Len(HEADER_META)
    /\ to_lowercase(SubSeq(h.name, 1, Len(HEADER_META))) = HEADER_LOWER_META
    /\ \A i \in 1..Len(h.value) : h.value[i] \notin {",", ":"}

\* C27 as stated: the custom headers of the response are those of the
\* request, index by index
C27_Original ==
    (pc = "merged" /\ file = to_eml(request)) =>
        /\ result.ok
        /\ \A i \in 1..Len(Responses) :
              Responses[i].compose_details.custom_headers
                  = CanonicalHeaders(request.compose_details.custom_headers)

\* C27: the custom headers of the response are those of the request, as
\* many and with the same names and values: first the headers whose name
\* starts with X-ExtEditorR and whose value has no comma and no colon, in
\* the order of the request, then the other headers in the order of the
\* request
C27_StablePartition ==
    (pc = "merged" /\ file = to_eml(request)) =>
        /\ result.ok
        /\ \A i \in 1..Len(Responses) :
              /\ Responses[i].warnings = <<>>
              /\ Responses[i].compose_details.custom_headers
                     = SelectSeq(CanonicalHeaders(request.compose_details.custom_headers),
                                 PlainReserved)
                       \o SelectSeq(CanonicalHeaders(request.compose_details.custom_headers),
                                    LAMBDA h : ~PlainReserved(h))

\* X-Foo, then X-ExtEditorR-Baz, in compact mode: X-ExtEditorR-Baz comes
\* back first
C27_Witness ==
    /\ Merged
    /\ request.configuration.meta_headers
    /\ request.compose_details.custom_headers
           = <<[name |-> <<"X","-","F","o","o">>, value |-> <<"b","a","r">>],
               [name |-> <<"X","-","E","x","t","E","d","i","t","o","r","R","-","B","a","z">>, value |-> <<"q","u","x">>]>>
    /\ Responses[1].compose_details.custom_headers
           = <<[name |-> <<"X","-","E","x","t","E","d","i","t","o","r","R","-","B","a","z">>, value |-> <<"q","u","x">>],
               [name |-> <<"X","-","F","o","o">>, value |-> <<"b","a","r">>]>>
----------------------------------------------------------------------------
(* Names that are not reserved. *)

\* a line and the name process_header gets for it
NamedLine(text, name) == [text |-> text, name |-> name]

NamePool ==
    {NamedLine(<<"X","-","F","o","o",":"," ","v">>, <<"X","-","F","o","o">>),
     NamedLine(<<"x","-","b","a","r",":"," ","v">>, <<"x","-","b","a","r">>),
     NamedLine(<<"F","o","o",":"," ","v">>, <<"F","o","o">>),
     NamedLine(<<"X","F","o","o",":"," ","v">>, <<"X","F","o","o">>),
     NamedLine(<<"X","-","E","x","t","E","d","i","t","o","r","R","1",":"," ","v">>, <<"X","-","E","x","t","E","d","i","t","o","r","R","1">>),
     NamedLine(<<"X","-","E","x","t","E","d","i","t","o","r","R","-","F","o","o",":"," ","v">>, <<"X","-","E","x","t","E","d","i","t","o","r","R","-","F","o","o">>),
     NamedLine(<<"x","-","e","x","t","e","d","i","t","o","r","r","-","f","o","o",":"," ","v">>, <<"x","-","e","x","t","e","d","i","t","o","r","r","-","f","o","o">>),
     NamedLine(<<"X","-","E","x","t","E","d","i","t","o","r","R",":"," ","X","-","B","a","r",":"," ","v">>, <<"X","-","E","x","t","E","d","i","t","o","r","R","-","X","-","B","a","r">>),
     NamedLine(<<"X","-","E","x","t","E","d","i","t","o","r","R","-","X","-","E","x","t","E","d","i","t","o","r","R","-","F","o","o",":"," ","v">>, <<"X","-","E","x","t","E","d","i","t","o","r","R","-","X","-","E","x","t","E","d","i","t","o","r","R","-","F","o","o">>),
     NamedLine(<<"x","-","e","x","t","e","d","i","t","o","r","r","-","x","-","e","x","t","e","d","i","t","o","r","r","1",":"," ","v">>, <<"x","-","e","x","t","e","d","i","t","o","r","r","-","x","-","e","x","t","e","d","i","t","o","r","r","1">>)}

NameDocuments == DocumentsOf(NamePool)

NameRequests ==
    {[get_blank_compose EXCEPT !.configuration.allow_custom_headers = a] : a \in BOOLEAN}

InitNames == InitEdited(NameRequests, Range(NameDocuments))

NextNames == MergeFromEml

SpecNames == InitNames /\ [][NextNames]_vars

\* whether name starts with prefix (given in lower case) in any case
StartsWithAnyCase(name, prefix) ==
    /\ Len(name) >= Len(prefix)
    /\ to_lowercase(SubSeq(name, 1, Len(prefix))) = prefix

Doubled(name) == StartsWithAnyCase(name, <<"x","-","e","x","t","e","d","i","t","o","r","r","-","x","-","e","x","t","e","d","i","t","o","r","r">>)

\* the rule of the claim
StoredByName(name) ==
    \/ StartsWithAnyCase(name, <<"x","-">>) /\ ~StartsWithAnyCase(name, <<"x","-","e","x","t","e","d","i","t","o","r","r">>)
    \/ Doubled(name)

\* the name under which a stored header is kept: the first prefix of a
\* doubled name removed, a leading x- written X-
StoredName(name) ==
    LET kept == IF Doubled(name) THEN SubSeq(name, Len(<<"X","-","E","x","t","E","d","i","t","o","r","R","-">>) + 1, Len(name))
                ELSE name
    IN  IF Len(kept) >= 2 /\ SubSeq(kept, 1, 2) = <<"x","-">>
        THEN <<"X","-">> \o SubSeq(kept, 3, Len(kept))
        ELSE kept

StoredOf(lines) ==
    [i \in 1..Len(SelectSeq(lines, LAMBDA l : StoredByName(l.name))) |->
        [name |-> StoredName(SelectSeq(lines, LAMBDA l : StoredByName(l.name))[i].name),
         value |-> <<"v">>]]

UnknownOf(lines) ==
    [i \in 1..Len(SelectSeq(lines, LAMBDA l : ~StoredByName(l.name))) |->
        SelectSeq(lines, LAMBDA l : ~StoredByName(l.name))[i].name]

\* the custom headers and the names reported, for stored and unknown
NamesDecided(response, allowed, stored, unknown) ==
    /\ response.compose_details.custom_headers = (IF allowed THEN stored ELSE <<>>)
    /\ LET reported == unknown \o (IF allowed THEN <<>>
                                   ELSE [i \in 1..Len(stored) |-> stored[i].name])
       IN  IF reported = <<>> THEN response.warnings = <<>>
           ELSE /\ Len(response.warnings) = 1
                /\ response.warnings[1].message
                       = <<"E","x","t","E","d","i","t","o","r","R"," ","d","i","d"," ","n","o","t"," ","r","e","c","o","g","n","i","s","e"," ","t","h","e"," ","f","o","l","l","o","w","i","n","g"," ","h","e","a","d","e","r","s",":">>
                         \o Concat([i \in 1..Len(reported) |-> <<"\n","-"," ">> \o reported[i]])

\* C28: a header whose name is not reserved is stored as a custom header
\* exactly when its name starts with x- and not with x-exteditorr, or with
\* x-exteditorr-x-exteditorr, and when custom headers are allowed; every
\* other name is reported as unknown and is not among the custom headers
C28_CustomHeaderNames ==
    pc = "merged" =>
        /\ result.ok
        /\ \A i \in 1..Len(Responses) :
              NamesDecided(Responses[i], request.configuration.allow_custom_headers,
                           StoredOf(PlanFor(NameDocuments, file)),
                           UnknownOf(PlanFor(NameDocuments, file)))

\* custom headers allowed: X-Bar of a compact line is reported, the doubled
\* name is stored
C28_Witness ==
    /\ Merged
    /\ request.configuration.allow_custom_headers
    /\ file = LinesDocument(<<NamedLine(<<"X","-","E","x","t","E","d","i","t","o","r","R",":"," ","X","-","B","a","r",":"," ","v">>, <<"X","-","E","x","t","E","d","i","t","o","r","R","-","X","-","B","a","r">>),
                              NamedLine(<<"X","-","E","x","t","E","d","i","t","o","r","R","-","X","-","E","x","t","E","d","i","t","o","r","R","-","F","o","o",":"," ","v">>,
                                        <<"X","-","E","x","t","E","d","i","t","o","r","R","-","X","-","E","x","t","E","d","i","t","o","r","R","-","F","o","o">>)>>)
    /\ Responses[1].compose_details.custom_headers
           = <<[name |-> <<"X","-","E","x","t","E","d","i","t","o","r","R","-","F","o","o">>, value |-> <<"v">>]>>
    /\ contains(Responses[1].warnings[1].message, <<"-"," ","X","-","E","x","t","E","d","i","t","o","r","R","-","X","-","B","a","r">>)
----------------------------------------------------------------------------
(* From and Subject. *)

\* a line, the field it sets ("none" for a line that sets neither) and the
\* value it gives
FieldLine(text, sets, value) == [text |-> text, sets |-> sets, value |-> value]

FieldPool ==
    {FieldLine(<<"F","r","o","m",":"," ","a","@","x",".","o","r","g">>, "from", Email(<<"a","@","x",".","o","r","g">>)),
     FieldLine(<<"f","r","o","m",":"," "," ","B"," ","<","b","@","x",".","o","r","g",">"," ">>, "from", Email(<<"B"," ","<","b","@","x",".","o","r","g",">">>)),
     FieldLine(<<"F","r","o","m",":">>, "none", <<>>),
     FieldLine(<<"F", "r", "o", "m", ":", " ", "\t">>, "none", <<>>),
     FieldLine(<<"S","u","b","j","e","c","t",":"," ","o","n","e">>, "subject", <<"o","n","e">>),
     FieldLine(<<"S","U","B","J","E","C","T",":"," "," "," ","t","w","o",":"," ","2"," ">>, "subject", <<"t","w","o",":"," ","2">>),
     FieldLine(<<"S","u","b","j","e","c","t",":">>, "none", <<>>),
     FieldLine(<<"T","o",":"," ","t","@","x",".","o","r","g">>, "none", <<>>)}

FieldDocuments == DocumentsOf(FieldPool)

FieldRequests ==
    {[get_blank_compose EXCEPT
         !.compose_details.from = f,
         !.compose_details.subject = s,
         !.compose_details.to = Multiple(<<Email(<<"o","l","d","@","x",".","o","r","g">>)>>)] :
        f \in {Email(<<"o","l","d","@","x",".","o","r","g">>), Node(<<"c","1">>, "Contact")},
        s \in {<<>>, <<"o","l","d"," ","s","u","b","j","e","c","t">>}}

InitFields == InitEdited(FieldRequests, Range(FieldDocuments))

NextFields == MergeFromEml

SpecFields == InitFields /\ [][NextFields]_vars

\* the value the last line that sets field gives, or old when there is none
LastGiven(lines, field, old) ==
    IF \E i \in 1..Len(lines) : lines[i].sets = field
    THEN lines[CHOOSE i \in 1..Len(lines) :
                  /\ lines[i].sets = field
                  /\ \A j \in (i + 1)..Len(lines) : lines[j].sets # field].value
    ELSE old

FromAndSubject(lines) ==
    /\ result.ok
    /\ \A i \in 1..Len(Responses) :
          /\ Responses[i].compose_details.from
                 = LastGiven(lines, "from", request.compose_details.from)
          /\ Responses[i].compose_details.subject
                 = LastGiven(lines, "subject", request.compose_details.subject)
          /\ (\A k \in 1..Len(lines) : lines[k].text # <<"T","o",":"," ","t","@","x",".","o","r","g">>)
                 => Responses[i].compose_details.to = Multiple(<<>>)

\* C29: from and subject are not reset before the headers are read, unlike
\* the recipient lists: without a From (Subject) line that has a value,
\* every response carries the from (subject) of the request; with several,
\* the last one is kept
C29_FromSubjectKept ==
    pc = "merged" => FromAndSubject(PlanFor(FieldDocuments, file))

\* the user empties the Subject line: the old subject stays, while the To
\* list, which has no line, is empty
C29_Witness ==
    /\ Merged
    /\ request.compose_details.subject = <<"o","l","d"," ","s","u","b","j","e","c","t">>
    /\ file = LinesDocument(<<FieldLine(<<"S","u","b","j","e","c","t",":">>, "none", <<>>)>>)
    /\ Responses[1].compose_details.subject = <<"o","l","d"," ","s","u","b","j","e","c","t">>
    /\ Responses[1].compose_details.from = request.compose_details.from
    /\ Responses[1].compose_details.to = Multiple(<<>>)
----------------------------------------------------------------------------
(* handle_eml and handle_compose: a write_message that returns Err. *)

\* handle_eml has returned Ok(()) to handle_compose
ReturnedOk == pc = "done" /\ error = None

\* C30: a write of a response that fails does not stop the worker: every
\* response is still handed to write_message, in order, no Error is written,
\* handle_eml returns Ok and remove_file is called on the temporary file,
\* which is gone when that call succeeds; remove_file is called exactly when
\* handle_eml returns Ok, whatever the writes returned
C30_WriteFailure ==
    ping = None =>
        /\ (pc = "merged" \/ ReturnedOk) =>
              /\ Len(messages) = sent
              /\ \A i \in 1..Len(messages) :
                    /\ messages[i].kind = "compose"
                    /\ messages[i].body = Responses[i]
        /\ ReturnedOk =>
              /\ Len(messages) = Len(Responses)
              /\ remove_file # "not called"
              /\ remove_file = "ok" => ~disk
        /\ remove_file # "not called" => ReturnedOk
        /\ (pc = "done" /\ error # None) =>
              /\ remove_file = "not called"
              /\ Len(messages) = 1
              /\ messages[1].kind = "error"

\* three responses, every write failed, the file removed
C30_Witness ==
    /\ ping = None /\ ReturnedOk
    /\ Len(messages) = 3
    /\ \A i \in 1..3 :
          /\ ~messages[i].ok
          /\ messages[i].body.configuration.sequence = i - 1
    /\ remove_file = "ok"
    /\ ~disk
----------------------------------------------------------------------------
(* main (main.rs): the loop that reads one request at a time and spawns one
   thread per request.  The threads share the file system and standard
   output.  Documents are abstract here: a temporary file holds the thread
   whose request was written to it last and the thread whose editor saved it
   last; stdout holds the calls of write_message, not their bytes, and the
   documents are short: one response each. *)

\* the threads of one run
MaxThreads == 2

\* env::temp_dir()
temp_dir == "/tmp"

\* util.rs get_temp_filename: the directory of the request, or the temporary
\* directory of the system, and a file name made of the id of the tab
get_temp_filename(req) ==
    <<IF req.configuration.temporary_directory # ""
      THEN req.configuration.temporary_directory
      ELSE temp_dir,
      req.tab.id>>

ThreadCompose(id, dir) ==
    [kind |-> "compose", tab |-> [id |-> id],
     configuration |-> [temporary_directory |-> dir]]

\* the requests read from standard input: a Ping, and Compose requests of
\* the version of the host for two tabs, one of them with a directory of its own
ThreadRequests ==
    {[kind |-> "ping"], ThreadCompose(1, ""), ThreadCompose(2, "/home/u/drafts")}

\* a temporary file: the thread whose request was written to it last and the
\* thread whose editor saved it last, 0 for none
File(req, editor) == [exists |-> TRUE, request |-> req, editor |-> editor]

\* no temporary file at a path
NoFile == [exists |-> FALSE, request |-> 0, editor |-> 0]

\* thread::spawn(move || match request { .. }): the thread of a request
Spawned(req) == [request |-> req, pc |-> "request", shown |-> NoFile, read |-> NoFile]

\* a variant in which main joins every thread before it reads again
Blocking_Joined(ts) == {t \in DOMAIN ts : ts[t].pc # "done"}

\* main: the threads the loop waits for before it reads the next request;
\* the JoinHandle of thread::spawn is dropped
Blocking(ts) == {}

\* a variant that writes no Error
WriteErr_Dropped(out, t) == out

\* handle_compose: T::write_message(&e) in the Err arm
WriteErr(out, t) == Append(out, [thread |-> t, kind |-> "error"])

\* the single exchange of the other specifications, at rest
NoExchange ==
    /\ request = get_blank_compose
    /\ file = <<>>
    /\ max_body_length = MAX_BODY_LENGTH
    /\ result = NoResult
    /\ pc = "threads"
    /\ host_version = get_blank_compose.configuration.version
    /\ disk = FALSE
    /\ error = None
    /\ sent = 0
    /\ messages = <<>>
    /\ ping = None
    /\ remove_file = "not called"

exchange == <<request, file, max_body_length, result, pc, host_version, disk, error, sent,
              messages, ping, remove_file>>

InitProcess ==
    /\ NoExchange
    /\ reader = "reading"
    /\ threads = <<>>
    /\ files = [p \in {get_temp_filename(r) : r \in {q \in ThreadRequests : q.kind = "compose"}}
                  |-> NoFile]
    /\ stdout = <<>>

Exists(p) == files[p].exists

Path(t) == get_temp_filename(threads[t].request)

\* the thread t is running as the thread of a request of the kind
Runs(t, kind, at) ==
    /\ reader = "reading"
    /\ t \in DOMAIN threads
    /\ threads[t].request.kind = kind
    /\ threads[t].pc = at

Goto(t, to) == threads' = [threads EXCEPT ![t].pc = to]

\* the closure of a thread returns: what it held is dropped
Ended(thread) == [thread EXCEPT !.pc = "done", !.shown = NoFile, !.read = NoFile]

\* main: Tr::read_message returns a request, and thread::spawn
ReadMessage ==
    /\ reader = "reading"
    /\ Len(threads) < MaxThreads
    /\ Blocking(threads) = {}
    /\ \E req \in ThreadRequests : threads' = Append(threads, Spawned(req))
    /\ UNCHANGED <<reader, files, stdout, exchange>>

\* main: Tr::read_message returns Err (the stream is closed, or a frame is
\* malformed); `?` returns from main and the process exits with its threads
ReadFails ==
    /\ reader = "reading"
    /\ reader' = "exited"
    /\ UNCHANGED <<threads, files, stdout, exchange>>

\* handle_ping
ThreadPing(t) ==
    /\ Runs(t, "ping", "request")
    /\ stdout' = Append(stdout, [thread |-> t, kind |-> "ping"])
    /\ Goto(t, "done")
    /\ UNCHANGED <<reader, files, exchange>>

\* handle_eml: fs::File::create(&temp_filename), which truncates a file
\* that exists
CreateFile(t) ==
    /\ Runs(t, "compose", "request")
    /\ \/ /\ files' = [files EXCEPT ![Path(t)] = File(0, 0)]
          /\ Goto(t, "created")
       \/ /\ Goto(t, "failed")
          /\ files' = files
    /\ UNCHANGED <<reader, stdout, exchange>>

\* handle_eml: request.to_eml(&mut temp_file)
WriteFile(t) ==
    /\ Runs(t, "compose", "created")
    /\ \/ /\ files' = [files EXCEPT ![Path(t)] =
                          IF Exists(Path(t)) THEN File(t, 0) ELSE NoFile]
          /\ Goto(t, "written")
       \/ /\ Goto(t, "failed")
          /\ files' = files
    /\ UNCHANGED <<reader, stdout, exchange>>

\* handle_eml: Command::output() starts the editor, which opens the file
StartEditor(t) ==
    /\ Runs(t, "compose", "written")
    /\ \/ threads' = [threads EXCEPT ![t].pc = "editor", ![t].shown = files[Path(t)]]
       \/ Goto(t, "failed")
    /\ UNCHANGED <<reader, files, stdout, exchange>>

\* handle_eml: Command::output() returns; the editor has saved what it showed
EditorExits(t) ==
    /\ Runs(t, "compose", "editor")
    /\ files' = [files EXCEPT ![Path(t)] = File(threads[t].shown.request, t)]
    /\ \E success \in BOOLEAN : Goto(t, IF success THEN "edited" ELSE "failed")
    /\ UNCHANGED <<reader, stdout, exchange>>

\* handle_eml: fs::File::open(&temp_filename) and merge_from_eml
ReadFile(t) ==
    /\ Runs(t, "compose", "edited")
    /\ \/ /\ Exists(Path(t))
          /\ threads' = [threads EXCEPT ![t].pc = "merged", ![t].read = files[Path(t)]]
       \/ Goto(t, "failed")
    /\ UNCHANGED <<reader, files, stdout, exchange>>

\* handle_eml: the loop over responses
ThreadWrite(t) ==
    /\ Runs(t, "compose", "merged")
    /\ stdout' = Append(stdout, [thread |-> t, kind |-> "compose", document |-> threads[t].read])
    /\ Goto(t, "responded")
    /\ UNCHANGED <<reader, files, exchange>>

\* handle_compose: fs::remove_file(&temp_filename) in the Ok arm
RemoveFile(t) ==
    /\ Runs(t, "compose", "responded")
    /\ files' \in {files, [files EXCEPT ![Path(t)] = NoFile]}
    /\ threads' = [threads EXCEPT ![t] = Ended(@)]
    /\ UNCHANGED <<reader, stdout, exchange>>

\* handle_compose: the Err arm
ThreadError(t) ==
    /\ Runs(t, "compose", "failed")
    /\ stdout' = WriteErr(stdout, t)
    /\ threads' = [threads EXCEPT ![t] = Ended(@)]
    /\ UNCHANGED <<reader, files, exchange>>

\* the steps of a thread that wait for nothing but the scheduler
Run(t) ==
    \/ ThreadPing(t)
    \/ CreateFile(t)
    \/ WriteFile(t)
    \/ StartEditor(t)
    \/ ReadFile(t)
    \/ ThreadWrite(t)
    \/ RemoveFile(t)
    \/ ThreadError(t)

NextProcess ==
    \/ ReadMessage
    \/ ReadFails
    \/ \E t \in 1..MaxThreads : ThreadPing(t)
    \/ \E t \in 1..MaxThreads : CreateFile(t)
    \/ \E t \in 1..MaxThreads : WriteFile(t)
    \/ \E t \in 1..MaxThreads : StartEditor(t)
    \/ \E t \in 1..MaxThreads : EditorExits(t)
    \/ \E t \in 1..MaxThreads : ReadFile(t)
    \/ \E t \in 1..MaxThreads : ThreadWrite(t)
    \/ \E t \in 1..MaxThreads : RemoveFile(t)
    \/ \E t \in 1..MaxThreads : ThreadError(t)

SpecProcess == InitProcess /\ [][NextProcess]_vars

\* the scheduler of the operating system runs every thread that can run; the
\* editor and standard input are not its to run
SpecProcessFair == SpecProcess /\ \A t \in 1..MaxThreads : WF_vars(Run(t))
----------------------------------------------------------------------------
(* The threads of main: temporary files, completion, and the loop. *)

\* the thread has created its temporary file and has not yet removed it
Using(t) ==
    /\ reader = "reading"
    /\ threads[t].request.kind = "compose"
    /\ threads[t].pc \in {"created", "written", "editor", "edited", "merged", "responded"}

\* C22: the temporary file of a Compose request in flight belongs to its
\* thread alone: no two running threads use the same temporary file, and the
\* document a thread reads back was written by its own request and saved by
\* its own editor
C22_ExclusiveFile ==
    /\ \A t1, t2 \in DOMAIN threads :
          (t1 # t2 /\ Using(t1) /\ Using(t2)) => Path(t1) # Path(t2)
    /\ \A i \in DOMAIN stdout :
          stdout[i].kind = "compose" =>
              stdout[i].document = File(stdout[i].thread, stdout[i].thread)

\* the thread owes a message: it has been handed a request and is neither
\* waiting for its editor nor before it
Owes(t) ==
    /\ t \in DOMAIN threads
    /\ \/ threads[t].pc \in {"edited", "merged", "responded", "failed"}
       \/ threads[t].request.kind = "ping" /\ threads[t].pc = "request"

MessagesOf(t, kind) == {i \in DOMAIN stdout : stdout[i].thread = t /\ stdout[i].kind = kind}

\* the thread has ended, and wrote its responses or its Error before
Completed(t) ==
    /\ t \in DOMAIN threads
    /\ threads[t].pc = "done"
    /\ \/ /\ threads[t].request.kind = "ping"
          /\ Cardinality(MessagesOf(t, "ping")) = 1
       \/ /\ threads[t].request.kind = "compose"
          /\ \/ /\ Cardinality(MessagesOf(t, "compose")) = 1
                /\ MessagesOf(t, "error") = {}
             \/ /\ Cardinality(MessagesOf(t, "error")) = 1
                /\ MessagesOf(t, "compose") = {}

\* C23 as stated: nothing cancels a request that a thread has been handed:
\* no thread whose editor has exited is left short of its messages
C23_Original ==
    \A t \in DOMAIN threads : ~(reader = "exited" /\ Owes(t))

\* C23: as long as the loop of main keeps reading, a request handed to a
\* thread runs to completion in every interleaving: once its editor has
\* exited the thread writes its responses or its Error and then ends; a read
\* that fails ends the process, and with it the threads still in flight
C23_RunsToCompletion ==
    /\ [](\A t \in DOMAIN threads : threads[t].pc = "done" => Completed(t))
    /\ \A t \in 1..MaxThreads : Owes(t) ~> (Completed(t) \/ reader = "exited")

\* two Compose requests of two tabs, both completed, the second one first
C23_Witness ==
    /\ reader = "reading"
    /\ Len(threads) = 2
    /\ Completed(1) /\ Completed(2)
    /\ Len(stdout) = 2
    /\ stdout[1].thread = 2 /\ stdout[1].kind = "compose"
    /\ stdout[2].thread = 1 /\ stdout[2].kind = "compose"

\* a thread waits for its editor
AtEditor == \E t \in DOMAIN threads : threads[t].pc = "editor"

\* C24: while a thread waits for the editor of its request, the loop of
\* main is not blocked and neither is any other thread: the next request can
\* be read and handed to a thread of its own, and every other thread that
\* has not ended can take its next step
C24_ReaderNotBlocked ==
    (AtEditor /\ reader = "reading") =>
        /\ Len(threads) < MaxThreads => ENABLED ReadMessage
        /\ \A t \in DOMAIN threads :
              threads[t].pc \notin {"editor", "done"} => ENABLED Run(t)

\* the editor of the first request has not exited; a Ping read after it has
\* been answered
C24_Witness ==
    /\ Len(threads) = 2
    /\ threads[1].pc = "editor"
    /\ threads[2].request.kind = "ping"
    /\ threads[2].pc = "done"
    /\ stdout = <<[thread |-> 2, kind |-> "ping"]>>
====
